---- MODULE Spec2Model ----
(***************************************************************************)
(* The adversarial training loops of the GAN notebook                      *)
(* (gan_practical_local.ipynb): the 1-D Gaussian loop, the MNIST MLP loop  *)
(* and the MNIST CNN loop.  One run of the notebook executes one of the    *)
(* three loops from the import cell to the end of the training cell.       *)
(*                                                                         *)
(* Numbers are scaled integers: a probability p is kept in tenths (0..10), *)
(* a label likewise (10 for 1, 9 for 0.9), a loss in hundredths.  The      *)
(* networks are reduced to one scalar parameter each; the framework's      *)
(* optimizer keeps a moving average of the gradients' signs and moves the  *)
(* parameter by one along it.                                              *)
(***************************************************************************)
EXTENDS Integers, Sequences, FiniteSets, TLC

VARIABLES
    loop,          \* which training cell this run executes: "1D", "MLP", "CNN"
    pc,            \* position of the notebook's single thread of control
    py_seed,       \* state of Python's `random` module (-1: not seeded)
    np_state,      \* position in numpy's global random stream
    tf_state,      \* position in the backend's random stream (init, dropout)
    d_params,      \* discriminator weights
    g_params,      \* generator weights
    trainable,     \* discriminator.trainable
    dis_collected, \* weights discriminator.compile collected for its optimizer
    gan_collected, \* weights gan.compile collected for its optimizer
    e,             \* loop variable of `for e in range(epochs)`
    b,             \* loop variable of `for _ in range(batch_count)`
    noise,         \* latent batch
    real,          \* real batch (`real`, `image_batch`)
    fake,          \* synthetic batch (`fake`, `generated_images`)
    X,             \* discriminator training batch
    Y_dis,         \* discriminator labels, in tenths
    Y_gen,         \* generator targets, in tenths
    d_loss,        \* last discriminator loss, in hundredths (-1: unset)
    g_loss,        \* last generator loss, in hundredths (-1: unset)
    d_losses,      \* discriminator loss history
    g_losses,      \* generator loss history
    saved,         \* model files written by saveModels
    shown,         \* number of display.display(plt.gcf()) calls
    steps,         \* history: trainer steps completed
    update_log,    \* history: the train_on_batch calls made, in order
    noise_pos,     \* history: stream position at which `noise` was drawn
    fake_pos,      \* history: stream position of the noise `fake` came from
    d_update_pos,  \* history: stream position at the last discriminator update
    step_log,      \* history: per trainer step, its batches, weights and losses
    run_no,        \* history: 1 for a first run of the notebook, 2 for a re-run
    first_run,     \* history: what the first run started from and logged
    start,         \* history: the stream positions this run started from
    headless,      \* TRUE in a run whose visualization branch is elided
    latent,        \* the global latent_dim
    shapes,        \* per-sample tensor shapes of the models and the batches
    error,         \* the exception that ended the run ("none": no exception)
    path_exists,   \* whether the dataset file is at the path given to the loader
    open_calls,    \* history: gzip.open calls made by the loader
    train_set,     \* train_set_images as loadMNIST returned it (<<>>: not loaded)
    X_train,       \* the training images of the MNIST loops, normalized
    dis_opt,       \* state of the Adam optimizer discriminator.compile created
    gan_opt,       \* state of the Adam optimizer gan.compile created
    labels,        \* classification notebook: train_set_labels as loaded
    train_set_labels_output,\* classification notebook: the one-hot encoded labels
    col_n,         \* classification notebook: n of `for n in range(10)`
    mnist,         \* classification notebook: the other five arrays loadMNIST returned
    cnn,       \* classification notebook: the layers of cnn with their shapes
    cnn_compiled,  \* classification notebook: what cnn.compile set
    plt_show,      \* number of plt.show() calls (plotImages, plotGeneratedImages)
    PATCHCAMELYONFILENAME,\* whether the name the PatchCamelyon cell passes to its loader is bound
    n_epochs       \* the value the loop cell assigns to the variable epochs, scaled

vars == <<loop, pc, py_seed, np_state, tf_state, d_params, g_params, trainable,
          dis_collected, gan_collected, e, b, noise, real, fake, X, Y_dis, Y_gen,
          d_loss, g_loss, d_losses, g_losses, saved, shown, steps, update_log,
          noise_pos, fake_pos, d_update_pos, step_log, run_no, first_run,
          start, headless, latent, shapes, error, path_exists, open_calls,
          train_set, X_train, dis_opt, gan_opt, labels,
          train_set_labels_output, col_n, mnist, cnn, cnn_compiled, plt_show,
          PATCHCAMELYONFILENAME, n_epochs>>

(***************************************************************************)
(* Bounds of the model.                                                    *)
(***************************************************************************)
Entropy == 2        \* unseeded generators start at a position in 0..Entropy-1
PMax == 3           \* weights range over 0..PMax
Epochs1D == 3       \* epochs of the 1-D loop (10000 in the notebook), short runs
EpochsMNIST == 7    \* epochs of the MNIST loops (200 in the notebook)
Epochs1DLong == 201 \* epochs of the 1-D loop in the runs of SpecLong
NSamples == 2       \* n_samples (100 in the notebook)
BatchSize == 2      \* batch_size (128 in the notebook)
NTrain == 5         \* X_train.shape[0] (50000 in the notebook)
Examples == 2       \* images per figure (100 in the notebook)
NLabels == 2        \* len(train_set_labels) in the classification notebook
NValid == 1         \* len(valid_set_labels)
NTest == 1          \* len(test_set_labels)

(***************************************************************************)
(* Program constants.                                                      *)
(***************************************************************************)
real_mean == 8
latent_dim_1D == 1
latent_dim_MNIST == 10
VisEvery1D == 100
VisEveryMNIST == 5
Src_epochs_1D == 10000
Src_epochs_MNIST == 200
Src_batch_size == 128
Src_N == 50000
NumClasses == 10
ImageSide == 28
PadWidth == 2

Loops == {"1D", "MLP", "CNN"}

\* the parts of the notebook a run executes after the import cell: one of
\* the three training loops with the cells it needs, or the PatchCamelyon
\* cells, which load and plot and train nothing
Sections == Loops \cup {"PatchCamelyon"}

\* PATCHCAMELYONFILENAME is assigned by no cell of the notebook; a run of
\* the PatchCamelyon cells in which the user has bound it first is the other
\* case
FilenameBindings(l) ==
    IF l = "PatchCamelyon" THEN {"undefined", "bound"} ELSE {"undefined"}

latent_dim(l) == IF l = "1D" THEN latent_dim_1D ELSE latent_dim_MNIST

epochs(l) == IF l = "1D" THEN Epochs1D ELSE EpochsMNIST

n_batch(l) == IF l = "1D" THEN NSamples ELSE BatchSize

\* variant: the period of the 1-D loop has a zero too many
VisEveryThousand(l) == IF l = "1D" THEN 10 * VisEvery1D ELSE VisEveryMNIST

VisEvery(l) == IF l = "1D" THEN VisEvery1D ELSE VisEveryMNIST

(***************************************************************************)
(* batch_count = int(X_train.shape[0] / batch_size): true division, then   *)
(* truncation toward zero; both operands are positive.                     *)
(***************************************************************************)
\* variant: rounds up, counting a last partial batch
BatchCountCeil(N, bs) == (N + bs - 1) \div bs

batch_count_of(N, bs) == N \div bs

batch_count(l) == IF l = "1D" THEN 1 ELSE batch_count_of(NTrain, n_batch(l))

(***************************************************************************)
(* Small arithmetic helpers.                                               *)
(***************************************************************************)
Sign(x) == IF x > 0 THEN 1 ELSE IF x < 0 THEN -1 ELSE 0

Clip(x, lo, hi) == IF x < lo THEN lo ELSE IF x > hi THEN hi ELSE x

RECURSIVE SumSeq(_)
SumSeq(s) == IF s = <<>> THEN 0 ELSE Head(s) + SumSeq(Tail(s))

(***************************************************************************)
(* Random streams.  A stream is a position; the value at a position is     *)
(* fixed, a draw of k values reads k positions and advances by k.          *)
(***************************************************************************)
StreamValue(s) == (s * s + 3 * s + 1 + (s \div 7) * (s \div 7 + 3)) % 11

\* one value of np.random.normal(0, 1), reduced to {-1, 0, 1}
StdNormal(s) == (StreamValue(s) % 3) - 1

\* np.random.normal(mean, 1, size=[n, dim]) read at position s
NormalBatch(s, mean, n, dim) ==
    [i \in 1..n |-> [j \in 1..dim |-> mean + StdNormal(s + (i - 1) * dim + (j - 1))]]

\* np.random.randint(0, N, size=n) read at position s (0-based indices)
RandintBatch(s, N, n) == [i \in 1..n |-> StreamValue(s + i - 1) % N]

\* Dropout(0.3) during a training pass: TRUE when the unit is dropped
DropoutMask(s) == (StreamValue(s) + s) % 3 = 0

\* an initial weight drawn by a layer's initializer
InitWeight(s) == StreamValue(s) % (PMax + 1)

(***************************************************************************)
(* MNIST data: the images are reduced to one pixel intensity in {0, 1},    *)
(* each with its digit label.                                              *)
(***************************************************************************)
train_set_images == [i \in 1..NTrain |-> i % 2]

train_set_labels == [i \in 1..NTrain |-> (7 * i) % 10]

\* the object in the PatchCamelyon pickle: colour patches, three channels
\* per pixel
PatchCamelyonPickle == [i \in 1..NTrain |-> <<i % 2, (i + 1) % 2, i % 2>>]

\* (images.reshape(...).astype(np.float32) - 0.5)/0.5
Normalize(images) == [i \in 1..Len(images) |-> 2 * images[i] - 1]

(***************************************************************************)
(* The networks.  generator.predict and discriminator.predict are forward  *)
(* passes in the inference phase; train_on_batch runs the forward pass in  *)
(* the training phase (Dropout active), returns the batch's loss and       *)
(* applies one optimizer step to the weights its model collected when it   *)
(* was compiled.  Neither call inspects its numbers: a weight that is not  *)
(* finite gives outputs, a loss and updated weights that are not finite.   *)
(***************************************************************************)
HasDropout(l) == l # "1D"

\* a float that is not finite (nan, inf); every operation on it returns it
NaN == 9999

IsFinite(x) == x # NaN

AllFinite(S) == \A i \in 1..Len(S) : IsFinite(S[i])

\* variant: the output layer has no activation
Sigmoid10Linear(t) == 5 + 3 * t

\* sigmoid, in tenths
Sigmoid10(t) ==
    IF t <= -2 THEN 1 ELSE IF t = -1 THEN 3 ELSE IF t = 0 THEN 5
    ELSE IF t = 1 THEN 7 ELSE 9

\* tanh, reduced to {-1, 0, 1}
Tanh1(t) == Clip(t, -1, 1)

\* the generator's forward pass on one latent vector: a linear output in the
\* 1-D network, a tanh output in the MNIST networks
GenForward(l, g, z) ==
    IF ~IsFinite(g) THEN NaN
    ELSE IF l = "1D" THEN SumSeq(z) + g ELSE Tanh1(SumSeq(z) + g)

GeneratorPredict(l, g, Z) == [i \in 1..Len(Z) |-> GenForward(l, g, Z[i])]

\* the discriminator's forward pass on a batch of samples; `drop` is the
\* training-phase Dropout mask (FALSE in the inference phase)
DiscriminatorForward(d, S, drop) ==
    [i \in 1..Len(S) |->
        IF ~IsFinite(d) \/ ~IsFinite(S[i]) THEN NaN
        ELSE Sigmoid10(IF drop THEN 0 ELSE S[i] - d)]

\* -100 * ln(p), p in tenths, clipped away from 0 as the backend does
NegLog100(p10) ==
    CASE p10 <= 0 -> 1612
      [] p10 = 1 -> 230 [] p10 = 2 -> 161 [] p10 = 3 -> 120 [] p10 = 4 -> 92
      [] p10 = 5 -> 69  [] p10 = 6 -> 51  [] p10 = 7 -> 36  [] p10 = 8 -> 22
      [] p10 = 9 -> 11  [] OTHER -> 0

\* loss='binary_crossentropy': the batch mean of -(y ln p + (1-y) ln(1-p))
BinaryCrossentropy(Y, P) ==
    IF ~AllFinite(P) THEN NaN
    ELSE SumSeq([i \in 1..Len(Y) |->
             Y[i] * NegLog100(P[i]) + (10 - Y[i]) * NegLog100(10 - P[i])])
         \div (10 * Len(Y))

\* keras.optimizers.Adam(lr=0.0002, beta_1=0.5) as compile creates it: no
\* update made, moving average of the gradients zero
FreshAdam == [iterations |-> 0, m |-> 0]

\* the optimizer's state after an update with descent direction dir: the
\* update is counted and the direction enters the moving average, which is
\* kept in -2..2
AdamUpdate(opt, dir) ==
    [iterations |-> opt.iterations + 1, m |-> Clip(opt.m + dir, -2, 2)]

\* the descent direction of the discriminator's loss: with logit x - d the
\* gradient of the loss in d is sum(y - p)
DiscriminatorDirection(Y, P) ==
    IF ~AllFinite(P) THEN 0
    ELSE Sign(SumSeq([i \in 1..Len(Y) |-> P[i] - Y[i]]))

\* the descent direction of the composed model's loss in the generator's
\* weights: the gradient of the loss in g is sum(p - y)
GeneratorDirection(Y, P) ==
    IF ~AllFinite(P) THEN 0
    ELSE Sign(SumSeq([i \in 1..Len(Y) |-> Y[i] - P[i]]))

\* one optimizer step on the discriminator's weights: they move along the
\* optimizer's updated moving average
DiscriminatorStep(d, opt, Y, P) ==
    IF ~IsFinite(d) \/ ~AllFinite(P) THEN NaN
    ELSE Clip(d + Sign(AdamUpdate(opt, DiscriminatorDirection(Y, P)).m),
              0, PMax)

\* one optimizer step on the generator's weights through the composed model
GeneratorStep(g, opt, Y, P) ==
    IF ~IsFinite(g) \/ ~AllFinite(P) THEN NaN
    ELSE Clip(g + Sign(AdamUpdate(opt, GeneratorDirection(Y, P)).m), 0, PMax)

\* the same step of the composed model on the discriminator's weights, taken
\* only when the composed model collected them
GanDiscriminatorStep(d, Y, P) ==
    IF ~IsFinite(d) \/ ~AllFinite(P) THEN NaN
    ELSE Clip(d - Sign(SumSeq([i \in 1..Len(Y) |-> Y[i] - P[i]])), 0, PMax)

(***************************************************************************)
(* Labels.                                                                 *)
(***************************************************************************)
\* the value written into Y_dis[:n]: 1 in the 1-D and CNN loops, 0.9 in the
\* MLP loop (one-sided label smoothing)
RealLabel(l) == IF l = "MLP" THEN 9 ELSE 10

\* np.zeros(2*n) with the first n entries set to the real label
DiscriminatorLabels(l, n) ==
    [i \in 1..(2 * n) |-> IF i <= n THEN RealLabel(l) ELSE 0]

\* variant: the generator's targets are smoothed too
GeneratorTargetsSmoothed(n) == [i \in 1..n |-> 9]

\* np.ones(n)
GeneratorTargets(n) == [i \in 1..n |-> 10]

\* variant: np.concatenate([fake, real])
ConcatenateSwapped(r, f) == f \o r

\* np.concatenate([real, fake])
Concatenate(r, f) == r \o f

(***************************************************************************)
(* Tensor shapes.  A shape is the tuple of a sample's dimensions, without  *)
(* the batch dimension.  The layers compute their output shape from their  *)
(* input shape as the framework does, for the image data format the import *)
(* cell sets.                                                              *)
(***************************************************************************)
\* variant: the framework's default data format is left in place
ImageDataFormatDefault == "channels_last"

\* keras.backend.set_image_data_format('channels_first')
image_data_format == "channels_first"

Dense(units) == [op |-> "Dense", n |-> units, stride |-> 1, target |-> <<>>]

LeakyReLU == [op |-> "LeakyReLU", n |-> 0, stride |-> 1, target |-> <<>>]

Dropout == [op |-> "Dropout", n |-> 0, stride |-> 1, target |-> <<>>]

Flatten == [op |-> "Flatten", n |-> 0, stride |-> 1, target |-> <<>>]

Reshape(t) == [op |-> "Reshape", n |-> 0, stride |-> 1, target |-> t]

\* UpSampling2D(size=(f, f))
UpSampling2D(f) == [op |-> "UpSampling2D", n |-> f, stride |-> 1, target |-> <<>>]

\* Conv2D(filters, kernel_size=(5, 5), strides=(s, s), padding='same')
Conv2D(filters, s) == [op |-> "Conv2D", n |-> filters, stride |-> s, target |-> <<>>]

RECURSIVE Product(_)
Product(s) == IF s = <<>> THEN 1 ELSE Head(s) * Product(Tail(s))

CeilDiv(x, y) == (x + y - 1) \div y

\* the output shape of one layer on input shape s
LayerOutputShape(layer, s) ==
    CASE layer.op = "Dense" -> <<layer.n>>
      [] layer.op \in {"LeakyReLU", "Dropout"} -> s
      [] layer.op = "Flatten" -> <<Product(s)>>
      [] layer.op = "Reshape" -> layer.target
      [] layer.op = "UpSampling2D" ->
            IF image_data_format = "channels_first"
              THEN <<s[1], layer.n * s[2], layer.n * s[3]>>
              ELSE <<layer.n * s[1], layer.n * s[2], s[3]>>
      [] layer.op = "Conv2D" ->
            IF image_data_format = "channels_first"
              THEN <<layer.n, CeilDiv(s[2], layer.stride),
                     CeilDiv(s[3], layer.stride)>>
              ELSE <<CeilDiv(s[1], layer.stride), CeilDiv(s[2], layer.stride),
                     layer.n>>

\* the output shape of a Sequential model on input shape s
RECURSIVE OutputShape(_, _)
OutputShape(layers, s) ==
    IF layers = <<>> THEN s
    ELSE OutputShape(Tail(layers), LayerOutputShape(Head(layers), s))

\* get_generator_1D(), get_generator_MLP(), get_generator_CNN()
GeneratorLayers(l) ==
    CASE l = "1D"  -> <<Dense(32), LeakyReLU, Dense(1)>>
      [] l = "MLP" -> <<Dense(256), LeakyReLU, Dense(512), LeakyReLU,
                        Dense(1024), LeakyReLU, Dense(784)>>
      [] l = "CNN" -> <<Dense(128 * 7 * 7), LeakyReLU, Reshape(<<128, 7, 7>>),
                        UpSampling2D(2), Conv2D(64, 1), LeakyReLU,
                        UpSampling2D(2), Conv2D(1, 1)>>

\* get_discriminator_1D(), get_discriminator_MLP(), get_discriminator_CNN()
DiscriminatorLayers(l) ==
    CASE l = "1D"  -> <<Dense(32), LeakyReLU, Dense(1)>>
      [] l = "MLP" -> <<Dense(1024), LeakyReLU, Dropout, Dense(512), LeakyReLU,
                        Dropout, Dense(256), LeakyReLU, Dense(1)>>
      [] l = "CNN" -> <<Conv2D(64, 2), LeakyReLU, Dropout, Conv2D(128, 2),
                        LeakyReLU, Dropout, Flatten, Dense(1)>>

\* the input shape the generator is built with: input_dim=1 in the 1-D
\* network, input_dim=latent_dim in the MNIST networks
GeneratorInputShape(l, dim) == IF l = "1D" THEN <<1>> ELSE <<dim>>

\* the input shape the discriminator is built with: input_dim=1,
\* input_dim=784, input_shape=(1, 28, 28)
DiscriminatorInputShape(l) ==
    CASE l = "1D" -> <<1>> [] l = "MLP" -> <<784>> [] l = "CNN" -> <<1, 28, 28>>

\* the shape of a real sample: size=[n_samples, latent_dim] in the 1-D loop,
\* reshape(50000, 784) and reshape(50000, 1, 28, 28) in the MNIST loops
RealSampleShape(l, dim) ==
    CASE l = "1D" -> <<dim>> [] l = "MLP" -> <<784>> [] l = "CNN" -> <<1, 28, 28>>

NoShapes == [gen_in |-> <<>>, gen_out |-> <<>>, dis_in |-> <<>>,
             dis_out |-> <<>>, noise |-> <<>>, real |-> <<>>, fake |-> <<>>]

(***************************************************************************)
(* Initial state: a fresh kernel, before the first cell has run.           *)
(***************************************************************************)
NoArrays == [train_set_images |-> <<>>, valid_set_labels |-> <<>>,
             valid_set_images |-> <<>>, test_set_labels |-> <<>>,
             test_set_images |-> <<>>]

\* cnn before cnn.compile: no loss, no optimizer
NotCompiled == [loss |-> "none", optimizer |-> "none", iterations |-> 0]

NoRun == [np |-> -1, tf |-> -1, log |-> <<>>]

FreshKernel(l, np0, tf0) ==
    /\ loop = l
    /\ pc = "import"
    /\ py_seed = -1
    /\ np_state = np0
    /\ tf_state = tf0
    /\ d_params = 0
    /\ g_params = 0
    /\ trainable = TRUE
    /\ dis_collected = {}
    /\ gan_collected = {}
    /\ e = 0
    /\ b = 0
    /\ noise = <<>>
    /\ real = <<>>
    /\ fake = <<>>
    /\ X = <<>>
    /\ Y_dis = <<>>
    /\ Y_gen = <<>>
    /\ d_loss = -1
    /\ g_loss = -1
    /\ d_losses = <<>>
    /\ g_losses = <<>>
    /\ saved = {}
    /\ shown = 0
    /\ steps = 0
    /\ update_log = <<>>
    /\ noise_pos = -1
    /\ fake_pos = -1
    /\ d_update_pos = -1
    /\ step_log = <<>>
    /\ start = [np |-> np0, tf |-> tf0]
    /\ latent = latent_dim(l)
    /\ shapes = NoShapes
    /\ error = "none"
    /\ open_calls = 0
    /\ train_set = <<>>
    /\ X_train = <<>>
    /\ dis_opt = FreshAdam
    /\ gan_opt = FreshAdam
    /\ labels = <<>>
    /\ train_set_labels_output = <<>>
    /\ col_n = 0
    /\ mnist = NoArrays
    /\ cnn = <<>>
    /\ cnn_compiled = NotCompiled
    /\ plt_show = 0

\* the same kernel state, reached by restarting the kernel
RestartKernel(l, np0, tf0) ==
    /\ loop' = l
    /\ pc' = "import"
    /\ py_seed' = -1
    /\ np_state' = np0
    /\ tf_state' = tf0
    /\ d_params' = 0
    /\ g_params' = 0
    /\ trainable' = TRUE
    /\ dis_collected' = {}
    /\ gan_collected' = {}
    /\ e' = 0
    /\ b' = 0
    /\ noise' = <<>>
    /\ real' = <<>>
    /\ fake' = <<>>
    /\ X' = <<>>
    /\ Y_dis' = <<>>
    /\ Y_gen' = <<>>
    /\ d_loss' = -1
    /\ g_loss' = -1
    /\ d_losses' = <<>>
    /\ g_losses' = <<>>
    /\ saved' = {}
    /\ shown' = 0
    /\ steps' = 0
    /\ update_log' = <<>>
    /\ noise_pos' = -1
    /\ fake_pos' = -1
    /\ d_update_pos' = -1
    /\ step_log' = <<>>
    /\ start' = [np |-> np0, tf |-> tf0]
    /\ latent' = latent_dim(l)
    /\ shapes' = NoShapes
    /\ error' = "none"
    /\ open_calls' = 0
    /\ train_set' = <<>>
    /\ X_train' = <<>>
    /\ dis_opt' = FreshAdam
    /\ gan_opt' = FreshAdam
    /\ labels' = <<>>
    /\ train_set_labels_output' = <<>>
    /\ col_n' = 0
    /\ mnist' = NoArrays
    /\ cnn' = <<>>
    /\ cnn_compiled' = NotCompiled
    /\ plt_show' = 0

Init ==
    \E l \in Sections, np0 \in 0..(Entropy - 1), tf0 \in 0..(Entropy - 1) :
        /\ FreshKernel(l, np0, tf0)
        /\ run_no = 1
        /\ first_run = NoRun
        /\ headless = FALSE
        /\ path_exists = TRUE
        /\ PATCHCAMELYONFILENAME = "undefined"
        /\ n_epochs = epochs(l)

(***************************************************************************)
(* The cells before the training loop.                                     *)
(***************************************************************************)
\* import cell: random.seed(0) seeds Python's `random`; numpy's generator,
\* which every draw of the notebook uses, is left as the kernel started it
ImportCell ==
    /\ pc = "import"
    /\ py_seed' = 0
    /\ pc' = IF loop = "1D" THEN "setup" ELSE "load"
    /\ UNCHANGED <<loop, np_state, tf_state, d_params, g_params, trainable,
                   dis_collected, gan_collected, e, b, noise, real, fake, X,
                   Y_dis, Y_gen, d_loss, g_loss, d_losses, g_losses, saved,
                   shown, steps, update_log, noise_pos, fake_pos, d_update_pos,
                   step_log, run_no, first_run, start, headless, latent,
                   shapes, error, path_exists, open_calls, train_set,
                   X_train, dis_opt, gan_opt, labels,
                   train_set_labels_output, col_n, mnist, cnn, cnn_compiled,
                   plt_show, PATCHCAMELYONFILENAME, n_epochs>>

\* variant: an input of any shape is accepted
InputAcceptedUnchecked(given, expected) == TRUE

\* the framework's check of the shape of an array or tensor given to a model
\* against the input shape the model was built with
InputAccepted(given, expected) == given = expected

\* the shapes of the models the setup cell builds
BuiltShapes(l, dim) ==
    [NoShapes EXCEPT
       !.gen_in = GeneratorInputShape(l, dim),
       !.gen_out = OutputShape(GeneratorLayers(l), GeneratorInputShape(l, dim)),
       !.dis_in = DiscriminatorInputShape(l),
       !.dis_out = OutputShape(DiscriminatorLayers(l),
                               DiscriminatorInputShape(l))]

\* the loader cell: loadMNIST(MNIST_filename) (gzip.open, pickle.load,
\* f.close(), the six arrays returned), then plotImages of training images
\* at np.random.randint(0, train_set_images.shape[0], size=100)
LoadMNIST ==
    /\ pc = "load"
    /\ loop \in {"MLP", "CNN"}
    /\ path_exists
    /\ open_calls' = open_calls + 1
    /\ train_set' = train_set_images
    /\ np_state' = np_state + Examples
    /\ plt_show' = plt_show + 1
    /\ pc' = "setup"
    /\ UNCHANGED <<loop, py_seed, tf_state, d_params, g_params,
                   trainable, dis_collected, gan_collected, e, b, noise, real,
                   fake, X, Y_dis, Y_gen, d_loss, g_loss, d_losses, g_losses,
                   saved, shown, steps, update_log, noise_pos, fake_pos,
                   d_update_pos, step_log, run_no, first_run, start, headless,
                   latent, shapes, error, path_exists, X_train, dis_opt,
                   gan_opt, labels, train_set_labels_output, col_n, mnist,
                   cnn, cnn_compiled, PATCHCAMELYONFILENAME, n_epochs>>

\* variant: the exception of gzip.open is caught and the run goes on
LoadMNISTFailsCaught ==
    /\ pc = "load"
    /\ loop \in {"MLP", "CNN"}
    /\ ~path_exists
    /\ open_calls' = open_calls + 1
    /\ pc' = "setup"
    /\ UNCHANGED <<loop, py_seed, np_state, tf_state, d_params, g_params,
                   trainable, dis_collected, gan_collected, e, b, noise, real,
                   fake, X, Y_dis, Y_gen, d_loss, g_loss, d_losses, g_losses,
                   saved, shown, steps, update_log, noise_pos, fake_pos,
                   d_update_pos, step_log, run_no, first_run, start, headless,
                   latent, shapes, error, path_exists, train_set, X_train,
                   dis_opt, gan_opt, labels, train_set_labels_output, col_n,
                   mnist, cnn, cnn_compiled, plt_show, PATCHCAMELYONFILENAME,
                   n_epochs>>

\* loadMNIST(MNIST_filename) when no file is at the path: gzip.open raises,
\* nothing is assigned
LoadMNISTFails ==
    /\ pc = "load"
    /\ loop \in {"MLP", "CNN"}
    /\ ~path_exists
    /\ open_calls' = open_calls + 1
    /\ error' = "file_not_found"
    /\ pc' = "error"
    /\ UNCHANGED <<loop, py_seed, np_state, tf_state, d_params, g_params,
                   trainable, dis_collected, gan_collected, e, b, noise, real,
                   fake, X, Y_dis, Y_gen, d_loss, g_loss, d_losses, g_losses,
                   saved, shown, steps, update_log, noise_pos, fake_pos,
                   d_update_pos, step_log, run_no, first_run, start, headless,
                   latent, shapes, path_exists, train_set, X_train, dis_opt,
                   gan_opt, labels, train_set_labels_output, col_n, mnist,
                   cnn, cnn_compiled, plt_show, PATCHCAMELYONFILENAME,
                   n_epochs>>

\* the PatchCamelyon cell as the notebook has it: no cell binds
\* PATCHCAMELYONFILENAME, so evaluating the argument of the call raises
\* NameError before loadPatchCamelyon is entered; train_set_images is not
\* rebound, nothing is drawn or plotted
PatchCamelyonCellNameError ==
    /\ pc = "load"
    /\ loop = "PatchCamelyon"
    /\ PATCHCAMELYONFILENAME = "undefined"
    /\ error' = "name_error"
    /\ pc' = "error"
    /\ UNCHANGED <<loop, py_seed, np_state, tf_state, d_params, g_params,
                   trainable, dis_collected, gan_collected, e, b, noise,
                   real, fake, X, Y_dis, Y_gen, d_loss, g_loss, d_losses,
                   g_losses, saved, shown, steps, update_log, noise_pos,
                   fake_pos, d_update_pos, step_log, run_no, first_run,
                   start, headless, latent, shapes, path_exists, open_calls,
                   train_set, X_train, dis_opt, gan_opt, labels,
                   train_set_labels_output, col_n, mnist, cnn, cnn_compiled,
                   plt_show, PATCHCAMELYONFILENAME, n_epochs>>

\* the PatchCamelyon cell once the name is bound to a path with the file:
\* loadPatchCamelyon (gzip.open, pickle.load, f.close()) returns the whole
\* unpickled object, which the cell binds to train_set_images; then
\* plotImagesPatchCamelyon of the images at
\* np.random.randint(0, train_set_images.shape[0], size=100).  No cell with
\* code follows
LoadPatchCamelyon ==
    /\ pc = "load"
    /\ loop = "PatchCamelyon"
    /\ PATCHCAMELYONFILENAME = "bound"
    /\ path_exists
    /\ open_calls' = open_calls + 1
    /\ train_set' = PatchCamelyonPickle
    /\ np_state' = np_state + Examples
    /\ plt_show' = plt_show + 1
    /\ pc' = "loaded"
    /\ UNCHANGED <<loop, py_seed, tf_state, d_params, g_params, trainable,
                   dis_collected, gan_collected, e, b, noise, real, fake, X,
                   Y_dis, Y_gen, d_loss, g_loss, d_losses, g_losses, saved,
                   shown, steps, update_log, noise_pos, fake_pos,
                   d_update_pos, step_log, run_no, first_run, start,
                   headless, latent, shapes, error, path_exists, X_train,
                   dis_opt, gan_opt, labels, train_set_labels_output, col_n,
                   mnist, cnn, cnn_compiled, PATCHCAMELYONFILENAME, n_epochs>>

\* loadPatchCamelyon(path) when no file is at the path: gzip.open raises,
\* nothing is assigned
LoadPatchCamelyonFails ==
    /\ pc = "load"
    /\ loop = "PatchCamelyon"
    /\ PATCHCAMELYONFILENAME = "bound"
    /\ ~path_exists
    /\ open_calls' = open_calls + 1
    /\ error' = "file_not_found"
    /\ pc' = "error"
    /\ UNCHANGED <<loop, py_seed, np_state, tf_state, d_params, g_params,
                   trainable, dis_collected, gan_collected, e, b, noise,
                   real, fake, X, Y_dis, Y_gen, d_loss, g_loss, d_losses,
                   g_losses, saved, shown, steps, update_log, noise_pos,
                   fake_pos, d_update_pos, step_log, run_no, first_run,
                   start, headless, latent, shapes, path_exists, train_set,
                   X_train, dis_opt, gan_opt, labels,
                   train_set_labels_output, col_n, mnist, cnn, cnn_compiled,
                   plt_show, PATCHCAMELYONFILENAME, n_epochs>>

\* variant: the discriminator is left trainable when gan is compiled
SetupTrainableLeftOn == TRUE

\* the value assigned to discriminator.trainable between discriminator.compile
\* and gan.compile
SetupTrainable == FALSE

\* get_discriminator_*(), get_generator_*(), the three compile calls and the
\* composed model gan = Model(z, discriminator(generator(z)))
BuildModels ==
    /\ pc = "setup"
    /\ InputAccepted(<<latent>>, GeneratorInputShape(loop, latent))
    /\ shapes' = BuiltShapes(loop, latent)
    /\ d_params' = InitWeight(tf_state)
    /\ g_params' = InitWeight(tf_state + 1)
    /\ tf_state' = tf_state + 2
    /\ dis_collected' = {"discriminator"}
    /\ dis_opt' = FreshAdam
    /\ gan_opt' = FreshAdam
    /\ trainable' = SetupTrainable
    /\ gan_collected' = {"generator"} \cup
                        (IF SetupTrainable THEN {"discriminator"} ELSE {})
    /\ pc' = "loop_init"
    /\ UNCHANGED <<loop, py_seed, np_state, e, b, noise, real, fake, X, Y_dis,
                   Y_gen, d_loss, g_loss, d_losses, g_losses, saved, shown,
                   steps, update_log, noise_pos, fake_pos, d_update_pos,
                   step_log, run_no, first_run, start, headless, latent,
                   error, path_exists, open_calls, train_set,
                   X_train, labels, train_set_labels_output,
                   col_n, mnist, cnn, cnn_compiled, plt_show,
                   PATCHCAMELYONFILENAME, n_epochs>>

\* g_losses = []; d_losses = []; epochs, batch size, X_train, batch_count
InitLoop ==
    /\ pc = "loop_init"
    /\ d_losses' = <<>>
    /\ g_losses' = <<>>
    /\ e' = 0
    /\ X_train' = IF loop = "1D" THEN X_train ELSE Normalize(train_set)
    /\ pc' = "epoch"
    /\ UNCHANGED <<loop, py_seed, np_state, tf_state, d_params, g_params,
                   trainable, dis_collected, gan_collected, b, noise, real,
                   fake, X, Y_dis, Y_gen, d_loss, g_loss, saved, shown, steps,
                   update_log, noise_pos, fake_pos, d_update_pos, step_log,
                   run_no, first_run, start, headless, latent, shapes, error,
                   path_exists, open_calls, train_set,
                   dis_opt, gan_opt, labels, train_set_labels_output, col_n,
                   mnist, cnn, cnn_compiled, plt_show, PATCHCAMELYONFILENAME,
                   n_epochs>>

(***************************************************************************)
(* Loop control.                                                           *)
(***************************************************************************)
\* variant: the loop is left when a loss is not finite
EpochHeadStopsOnNaN ==
    /\ pc = "epoch"
    /\ IF e < n_epochs /\ IsFinite(d_loss) /\ IsFinite(g_loss)
         THEN /\ pc' = IF loop = "1D" THEN "draw" ELSE "batch"
              /\ b' = 0
         ELSE /\ pc' = "done"
              /\ b' = b
    /\ UNCHANGED <<loop, py_seed, np_state, tf_state, d_params, g_params,
                   trainable, dis_collected, gan_collected, e, noise, real,
                   fake, X, Y_dis, Y_gen, d_loss, g_loss, d_losses, g_losses,
                   saved, shown, steps, update_log, noise_pos, fake_pos,
                   d_update_pos, step_log, run_no, first_run, start, headless,
                   latent, shapes, error, path_exists, open_calls, train_set,
                   X_train, dis_opt, gan_opt, labels,
                   train_set_labels_output, col_n, mnist, cnn, cnn_compiled,
                   plt_show, PATCHCAMELYONFILENAME, n_epochs>>

\* for e in range(epochs):
EpochHead ==
    /\ pc = "epoch"
    /\ IF e < n_epochs
         THEN /\ pc' = IF loop = "1D" THEN "draw" ELSE "batch"
              /\ b' = 0
         ELSE /\ pc' = "done"
              /\ b' = b
    /\ UNCHANGED <<loop, py_seed, np_state, tf_state, d_params, g_params,
                   trainable, dis_collected, gan_collected, e, noise, real,
                   fake, X, Y_dis, Y_gen, d_loss, g_loss, d_losses, g_losses,
                   saved, shown, steps, update_log, noise_pos, fake_pos,
                   d_update_pos, step_log, run_no, first_run, start, headless,
                   latent, shapes, error, path_exists, open_calls, train_set,
                   X_train, dis_opt, gan_opt, labels,
                   train_set_labels_output, col_n, mnist, cnn, cnn_compiled,
                   plt_show, PATCHCAMELYONFILENAME, n_epochs>>

\* for _ in range(batch_count):   (MNIST loops)
BatchHead ==
    /\ pc = "batch"
    /\ pc' = IF b < batch_count(loop) THEN "draw" ELSE "record"
    /\ UNCHANGED <<loop, py_seed, np_state, tf_state, d_params, g_params,
                   trainable, dis_collected, gan_collected, e, b, noise, real,
                   fake, X, Y_dis, Y_gen, d_loss, g_loss, d_losses, g_losses,
                   saved, shown, steps, update_log, noise_pos, fake_pos,
                   d_update_pos, step_log, run_no, first_run, start, headless,
                   latent, shapes, error, path_exists, open_calls, train_set,
                   X_train, dis_opt, gan_opt, labels,
                   train_set_labels_output, col_n, mnist, cnn, cnn_compiled,
                   plt_show, PATCHCAMELYONFILENAME, n_epochs>>

(***************************************************************************)
(* One trainer step.                                                       *)
(***************************************************************************)
\* number of stream values a latent batch of n vectors reads
LatentCount(l, n) == n * latent

\* the real batch read at stream position s: in the 1-D loop
\* np.random.normal(real_mean, 1, size=[n_samples, latent_dim]); in the MNIST
\* loops X_train[np.random.randint(0, X_train.shape[0], size=batch_size)]
RealBatch(l, s, n) ==
    IF l = "1D"
      THEN [i \in 1..n |-> NormalBatch(s, real_mean, n, latent)[i][1]]
      ELSE [i \in 1..n |-> X_train[RandintBatch(s, Len(X_train), n)[i] + 1]]

RealCount(l, n) == IF l = "1D" THEN n * latent ELSE n

\* what a trainer step began with (stream positions, optimizer states, its
\* first draws) and, once it has ended, what it produced
NewStepRecord(z, r) ==
    [np |-> np_state, tf |-> tf_state, dis_opt |-> dis_opt, gan_opt |-> gan_opt,
     latent_d |-> z, real_b |-> r, latent_g |-> <<>>, d |-> -1, g |-> -1,
     d_loss |-> -1, g_loss |-> -1]

\* the record of a step that is about to be executed again
Unfinished(rec) ==
    [rec EXCEPT !.latent_g = <<>>, !.d = -1, !.g = -1, !.d_loss = -1,
                !.g_loss = -1]

\* variant: the training set is rotated in place before the batch is taken
DrawBatchesShuffles ==
    /\ pc = "draw"
    /\ InputAccepted(<<latent>>, shapes.gen_in)
    /\ shapes' = [shapes EXCEPT !.noise = <<latent>>,
                                !.real = RealSampleShape(loop, latent),
                                !.fake = shapes.gen_out]
    /\ LET n == n_batch(loop)
           z == NormalBatch(np_state, 0, n, latent)
           r == RealBatch(loop, np_state + LatentCount(loop, n), n)
           f == GeneratorPredict(loop, g_params, z)
       IN  /\ noise' = z
           /\ real' = r
           /\ fake' = f
           /\ X' = Concatenate(r, f)
           /\ Y_dis' = DiscriminatorLabels(loop, n)
           /\ np_state' = np_state + LatentCount(loop, n) + RealCount(loop, n)
           /\ step_log' = Append(step_log, NewStepRecord(z, r))
    /\ noise_pos' = np_state
    /\ X_train' = IF loop = "1D" THEN X_train
                                 ELSE Tail(X_train) \o <<Head(X_train)>>
    /\ fake_pos' = np_state
    /\ pc' = "d_enable"
    /\ UNCHANGED <<loop, py_seed, tf_state, d_params, g_params, trainable,
                   dis_collected, gan_collected, e, b, Y_gen, d_loss, g_loss,
                   d_losses, g_losses, saved, shown, steps, update_log,
                   d_update_pos, run_no, first_run, start, headless, latent,
                   error, path_exists, open_calls, train_set,
                   dis_opt, gan_opt, labels, train_set_labels_output, col_n,
                   mnist, cnn, cnn_compiled, plt_show, PATCHCAMELYONFILENAME,
                   n_epochs>>

\* variant: the real batch of the step before is used again
DrawBatchesKeepsReal ==
    /\ pc = "draw"
    /\ InputAccepted(<<latent>>, shapes.gen_in)
    /\ shapes' = [shapes EXCEPT !.noise = <<latent>>,
                                !.real = RealSampleShape(loop, latent),
                                !.fake = shapes.gen_out]
    /\ LET n == n_batch(loop)
           z == NormalBatch(np_state, 0, n, latent)
           r == IF Len(real) = n THEN real
                ELSE RealBatch(loop, np_state + LatentCount(loop, n), n)
           f == GeneratorPredict(loop, g_params, z)
       IN  /\ noise' = z
           /\ real' = r
           /\ fake' = f
           /\ X' = Concatenate(r, f)
           /\ Y_dis' = DiscriminatorLabels(loop, n)
           /\ np_state' = np_state + LatentCount(loop, n) + RealCount(loop, n)
           /\ step_log' = Append(step_log, NewStepRecord(z, r))
    /\ noise_pos' = np_state
    /\ fake_pos' = np_state
    /\ pc' = "d_enable"
    /\ UNCHANGED <<loop, py_seed, tf_state, d_params, g_params, trainable,
                   dis_collected, gan_collected, e, b, Y_gen, d_loss, g_loss,
                   d_losses, g_losses, saved, shown, steps, update_log,
                   d_update_pos, run_no, first_run, start, headless, latent,
                   error, path_exists, open_calls, train_set,
                   X_train, dis_opt, gan_opt, labels,
                   train_set_labels_output, col_n, mnist, cnn, cnn_compiled,
                   plt_show, PATCHCAMELYONFILENAME, n_epochs>>

\* noise, real batch, fake = generator.predict(noise), X and Y_dis
DrawBatches ==
    /\ pc = "draw"
    /\ InputAccepted(<<latent>>, shapes.gen_in)
    /\ shapes' = [shapes EXCEPT !.noise = <<latent>>,
                                !.real = RealSampleShape(loop, latent),
                                !.fake = shapes.gen_out]
    /\ LET n == n_batch(loop)
           z == NormalBatch(np_state, 0, n, latent)
           r == RealBatch(loop, np_state + LatentCount(loop, n), n)
           f == GeneratorPredict(loop, g_params, z)
       IN  /\ noise' = z
           /\ real' = r
           /\ fake' = f
           /\ X' = Concatenate(r, f)
           /\ Y_dis' = DiscriminatorLabels(loop, n)
           /\ np_state' = np_state + LatentCount(loop, n) + RealCount(loop, n)
           /\ step_log' = Append(step_log, NewStepRecord(z, r))
    /\ noise_pos' = np_state
    /\ fake_pos' = np_state
    /\ pc' = "d_enable"
    /\ UNCHANGED <<loop, py_seed, tf_state, d_params, g_params, trainable,
                   dis_collected, gan_collected, e, b, Y_gen, d_loss, g_loss,
                   d_losses, g_losses, saved, shown, steps, update_log,
                   d_update_pos, run_no, first_run, start, headless, latent,
                   error, path_exists, open_calls, train_set,
                   X_train, dis_opt, gan_opt, labels,
                   train_set_labels_output, col_n, mnist, cnn, cnn_compiled,
                   plt_show, PATCHCAMELYONFILENAME, n_epochs>>

\* discriminator.trainable = True
EnableDiscriminator ==
    /\ pc = "d_enable"
    /\ trainable' = TRUE
    /\ pc' = "d_train"
    /\ UNCHANGED <<loop, py_seed, np_state, tf_state, d_params, g_params,
                   dis_collected, gan_collected, e, b, noise, real, fake, X,
                   Y_dis, Y_gen, d_loss, g_loss, d_losses, g_losses, saved,
                   shown, steps, update_log, noise_pos, fake_pos, d_update_pos,
                   step_log, run_no, first_run, start, headless, latent,
                   shapes, error, path_exists, open_calls, train_set,
                   X_train, dis_opt, gan_opt, labels,
                   train_set_labels_output, col_n, mnist, cnn, cnn_compiled,
                   plt_show, PATCHCAMELYONFILENAME, n_epochs>>

\* variant: the discriminator is trained again instead of the generator
AfterDiscriminatorUpdateRepeat(l) == "d_enable"

\* the statement that follows the discriminator update: the freeze in the 1-D
\* loop, the fresh noise in the MNIST loops
AfterDiscriminatorUpdate(l) == IF l = "1D" THEN "freeze" ELSE "g_draw"

\* variant: the update's gradients also reach the generator that made the
\* synthetic half of X
TrainDiscriminatorMovesGenerator ==
    /\ pc = "d_train"
    /\ LET drop == HasDropout(loop) /\ DropoutMask(tf_state)
           P == DiscriminatorForward(d_params, X, drop)
           loss == BinaryCrossentropy(Y_dis, P)
       IN  /\ d_loss' = loss
           /\ d_params' = IF "discriminator" \in dis_collected
                            THEN DiscriminatorStep(d_params, dis_opt, Y_dis, P)
                            ELSE d_params
           /\ dis_opt' = IF "discriminator" \in dis_collected
                           THEN AdamUpdate(dis_opt,
                                           DiscriminatorDirection(Y_dis, P))
                           ELSE dis_opt
           /\ d_losses' = IF loop = "1D" THEN Append(d_losses, loss)
                                         ELSE d_losses
    /\ g_params' = Clip(g_params + 1, 0, PMax)
    /\ tf_state' = IF HasDropout(loop) THEN tf_state + 1 ELSE tf_state
    /\ update_log' = Append(update_log, "discriminator_update")
    /\ d_update_pos' = np_state
    /\ pc' = AfterDiscriminatorUpdate(loop)
    /\ UNCHANGED <<loop, py_seed, np_state, trainable, dis_collected,
                   gan_collected, e, b, noise, real, fake, X, Y_dis, Y_gen,
                   g_loss, g_losses, saved, shown, steps, noise_pos, fake_pos,
                   step_log, run_no, first_run, start, headless, latent,
                   shapes, error, path_exists, open_calls, train_set,
                   X_train, gan_opt, labels, train_set_labels_output, col_n,
                   mnist, cnn, cnn_compiled, plt_show, PATCHCAMELYONFILENAME,
                   n_epochs>>

\* d_loss = discriminator.train_on_batch(X, Y_dis); in the 1-D loop also
\* d_losses.append(d_loss)
TrainDiscriminator ==
    /\ pc = "d_train"
    /\ LET drop == HasDropout(loop) /\ DropoutMask(tf_state)
           P == DiscriminatorForward(d_params, X, drop)
           loss == BinaryCrossentropy(Y_dis, P)
       IN  /\ d_loss' = loss
           /\ d_params' = IF "discriminator" \in dis_collected
                            THEN DiscriminatorStep(d_params, dis_opt, Y_dis, P)
                            ELSE d_params
           /\ dis_opt' = IF "discriminator" \in dis_collected
                           THEN AdamUpdate(dis_opt,
                                           DiscriminatorDirection(Y_dis, P))
                           ELSE dis_opt
           /\ d_losses' = IF loop = "1D" THEN Append(d_losses, loss)
                                         ELSE d_losses
    /\ tf_state' = IF HasDropout(loop) THEN tf_state + 1 ELSE tf_state
    /\ update_log' = Append(update_log, "discriminator_update")
    /\ d_update_pos' = np_state
    /\ pc' = AfterDiscriminatorUpdate(loop)
    /\ UNCHANGED <<loop, py_seed, np_state, g_params, trainable, dis_collected,
                   gan_collected, e, b, noise, real, fake, X, Y_dis, Y_gen,
                   g_loss, g_losses, saved, shown, steps, noise_pos, fake_pos,
                   step_log, run_no, first_run, start, headless, latent,
                   shapes, error, path_exists, open_calls, train_set,
                   X_train, gan_opt, labels, train_set_labels_output, col_n,
                   mnist, cnn, cnn_compiled, plt_show, PATCHCAMELYONFILENAME,
                   n_epochs>>

\* variant: the freeze is missing
FreezeLeavesOn ==
    /\ pc = "freeze"
    /\ trainable' = TRUE
    /\ pc' = IF loop = "1D" THEN "g_draw" ELSE "g_train"
    /\ UNCHANGED <<loop, py_seed, np_state, tf_state, d_params, g_params,
                   dis_collected, gan_collected, e, b, noise, real, fake, X,
                   Y_dis, Y_gen, d_loss, g_loss, d_losses, g_losses, saved,
                   shown, steps, update_log, noise_pos, fake_pos, d_update_pos,
                   step_log, run_no, first_run, start, headless, latent,
                   shapes, error, path_exists, open_calls, train_set,
                   X_train, dis_opt, gan_opt, labels,
                   train_set_labels_output, col_n, mnist, cnn, cnn_compiled,
                   plt_show, PATCHCAMELYONFILENAME, n_epochs>>

\* discriminator.trainable = False: before the fresh noise in the 1-D loop,
\* after it in the MNIST loops
FreezeDiscriminator ==
    /\ pc = "freeze"
    /\ trainable' = FALSE
    /\ pc' = IF loop = "1D" THEN "g_draw" ELSE "g_train"
    /\ UNCHANGED <<loop, py_seed, np_state, tf_state, d_params, g_params,
                   dis_collected, gan_collected, e, b, noise, real, fake, X,
                   Y_dis, Y_gen, d_loss, g_loss, d_losses, g_losses, saved,
                   shown, steps, update_log, noise_pos, fake_pos, d_update_pos,
                   step_log, run_no, first_run, start, headless, latent,
                   shapes, error, path_exists, open_calls, train_set,
                   X_train, dis_opt, gan_opt, labels,
                   train_set_labels_output, col_n, mnist, cnn, cnn_compiled,
                   plt_show, PATCHCAMELYONFILENAME, n_epochs>>

\* variant: the latent batch of the discriminator update is used again
FreshNoiseReused ==
    /\ pc = "g_draw"
    /\ Y_gen' = GeneratorTargets(n_batch(loop))
    /\ pc' = IF loop = "1D" THEN "g_train" ELSE "freeze"
    /\ UNCHANGED <<loop, py_seed, np_state, tf_state, d_params, g_params,
                   trainable, dis_collected, gan_collected, e, b, noise, real,
                   fake, X, Y_dis, d_loss, g_loss, d_losses, g_losses, saved,
                   shown, steps, update_log, noise_pos, fake_pos, d_update_pos,
                   step_log, run_no, first_run, start, headless, latent,
                   shapes, error, path_exists, open_calls, train_set,
                   X_train, dis_opt, gan_opt, labels,
                   train_set_labels_output, col_n, mnist, cnn, cnn_compiled,
                   plt_show, PATCHCAMELYONFILENAME, n_epochs>>

\* noise = np.random.normal(0, 1, size=[n, latent_dim]); Y_gen = np.ones(n)
FreshNoise ==
    /\ pc = "g_draw"
    /\ noise' = NormalBatch(np_state, 0, n_batch(loop), latent)
    /\ noise_pos' = np_state
    /\ np_state' = np_state + LatentCount(loop, n_batch(loop))
    /\ Y_gen' = GeneratorTargets(n_batch(loop))
    /\ pc' = IF loop = "1D" THEN "g_train" ELSE "freeze"
    /\ UNCHANGED <<loop, py_seed, tf_state, d_params, g_params, trainable,
                   dis_collected, gan_collected, e, b, real, fake, X, Y_dis,
                   d_loss, g_loss, d_losses, g_losses, saved, shown, steps,
                   update_log, fake_pos, d_update_pos, step_log, run_no,
                   first_run, start, headless, latent, shapes, error,
                   path_exists, open_calls, train_set, X_train, dis_opt,
                   gan_opt, labels, train_set_labels_output, col_n, mnist,
                   cnn, cnn_compiled, plt_show, PATCHCAMELYONFILENAME,
                   n_epochs>>

\* variant: the composed model works on a copy of the discriminator taken
\* before the step's discriminator update
TrainGeneratorStaleDiscriminator ==
    /\ pc = "g_train"
    /\ LET drop == HasDropout(loop) /\ DropoutMask(tf_state)
           G_z == GeneratorPredict(loop, g_params, noise)
           stale == IF Len(step_log) = 1 THEN InitWeight(start.tf)
                    ELSE step_log[Len(step_log) - 1].d
           P == DiscriminatorForward(stale, G_z, drop)
           loss == BinaryCrossentropy(Y_gen, P)
           g2 == IF "generator" \in gan_collected
                   THEN GeneratorStep(g_params, gan_opt, Y_gen, P)
                   ELSE g_params
           d2 == IF "discriminator" \in gan_collected
                   THEN GanDiscriminatorStep(d_params, Y_gen, P) ELSE d_params
       IN  /\ g_loss' = loss
           /\ g_params' = g2
           /\ d_params' = d2
           /\ gan_opt' = AdamUpdate(gan_opt, GeneratorDirection(Y_gen, P))
           /\ g_losses' = IF loop = "1D" THEN Append(g_losses, loss)
                                         ELSE g_losses
           /\ step_log' = [step_log EXCEPT ![Len(step_log)] =
                             [@ EXCEPT !.latent_g = noise, !.d = d2, !.g = g2,
                                       !.d_loss = d_loss, !.g_loss = loss]]
    /\ tf_state' = IF HasDropout(loop) THEN tf_state + 1 ELSE tf_state
    /\ update_log' = Append(update_log, "generator_update")
    /\ steps' = steps + 1
    /\ IF loop = "1D" THEN pc' = "vis_check" /\ b' = b
                      ELSE pc' = "batch" /\ b' = b + 1
    /\ UNCHANGED <<loop, py_seed, np_state, trainable, dis_collected,
                   gan_collected, e, noise, real, fake, X, Y_dis, Y_gen,
                   d_loss, d_losses, saved, shown, noise_pos, fake_pos,
                   d_update_pos, run_no, first_run, start, headless, latent,
                   shapes, error, path_exists, open_calls, train_set,
                   X_train, dis_opt, labels, train_set_labels_output,
                   col_n, mnist, cnn, cnn_compiled, plt_show,
                   PATCHCAMELYONFILENAME, n_epochs>>

\* g_loss = gan.train_on_batch(noise, Y_gen); in the 1-D loop also
\* g_losses.append(g_loss).  This ends the trainer step.
TrainGenerator ==
    /\ pc = "g_train"
    /\ LET drop == HasDropout(loop) /\ DropoutMask(tf_state)
           G_z == GeneratorPredict(loop, g_params, noise)
           P == DiscriminatorForward(d_params, G_z, drop)
           loss == BinaryCrossentropy(Y_gen, P)
           g2 == IF "generator" \in gan_collected
                   THEN GeneratorStep(g_params, gan_opt, Y_gen, P)
                   ELSE g_params
           d2 == IF "discriminator" \in gan_collected
                   THEN GanDiscriminatorStep(d_params, Y_gen, P) ELSE d_params
       IN  /\ g_loss' = loss
           /\ g_params' = g2
           /\ d_params' = d2
           /\ gan_opt' = AdamUpdate(gan_opt, GeneratorDirection(Y_gen, P))
           /\ g_losses' = IF loop = "1D" THEN Append(g_losses, loss)
                                         ELSE g_losses
           /\ step_log' = [step_log EXCEPT ![Len(step_log)] =
                             [@ EXCEPT !.latent_g = noise, !.d = d2, !.g = g2,
                                       !.d_loss = d_loss, !.g_loss = loss]]
    /\ tf_state' = IF HasDropout(loop) THEN tf_state + 1 ELSE tf_state
    /\ update_log' = Append(update_log, "generator_update")
    /\ steps' = steps + 1
    /\ IF loop = "1D" THEN pc' = "vis_check" /\ b' = b
                      ELSE pc' = "batch" /\ b' = b + 1
    /\ UNCHANGED <<loop, py_seed, np_state, trainable, dis_collected,
                   gan_collected, e, noise, real, fake, X, Y_dis, Y_gen,
                   d_loss, d_losses, saved, shown, noise_pos, fake_pos,
                   d_update_pos, run_no, first_run, start, headless, latent,
                   shapes, error, path_exists, open_calls, train_set,
                   X_train, dis_opt, labels, train_set_labels_output,
                   col_n, mnist, cnn, cnn_compiled, plt_show,
                   PATCHCAMELYONFILENAME, n_epochs>>

\* variant: the losses are inserted at the front of the histories
RecordLossesAtFront ==
    /\ pc = "record"
    /\ d_losses' = <<d_loss>> \o d_losses
    /\ g_losses' = <<g_loss>> \o g_losses
    /\ pc' = "vis_check"
    /\ UNCHANGED <<loop, py_seed, np_state, tf_state, d_params, g_params,
                   trainable, dis_collected, gan_collected, e, b, noise, real,
                   fake, X, Y_dis, Y_gen, d_loss, g_loss, saved, shown, steps,
                   update_log, noise_pos, fake_pos, d_update_pos, step_log,
                   run_no, first_run, start, headless, latent, shapes, error,
                   path_exists, open_calls, train_set, X_train, dis_opt,
                   gan_opt, labels, train_set_labels_output, col_n, mnist,
                   cnn, cnn_compiled, plt_show, PATCHCAMELYONFILENAME,
                   n_epochs>>

\* variant: g_losses.append(g_loss) is missing
RecordDiscriminatorLossOnly ==
    /\ pc = "record"
    /\ d_losses' = Append(d_losses, d_loss)
    /\ pc' = "vis_check"
    /\ UNCHANGED <<loop, py_seed, np_state, tf_state, d_params, g_params,
                   trainable, dis_collected, gan_collected, e, b, noise, real,
                   fake, X, Y_dis, Y_gen, d_loss, g_loss, g_losses, saved,
                   shown, steps, update_log, noise_pos, fake_pos, d_update_pos,
                   step_log, run_no, first_run, start, headless, latent,
                   shapes, error, path_exists, open_calls, train_set,
                   X_train, dis_opt, gan_opt, labels,
                   train_set_labels_output, col_n, mnist, cnn, cnn_compiled,
                   plt_show, PATCHCAMELYONFILENAME, n_epochs>>

\* variant: the losses of the first batch of the epoch are stored
RecordLossesFirstBatch ==
    /\ pc = "record"
    /\ d_losses' = Append(d_losses, step_log[steps - batch_count(loop) + 1].d_loss)
    /\ g_losses' = Append(g_losses, step_log[steps - batch_count(loop) + 1].g_loss)
    /\ pc' = "vis_check"
    /\ UNCHANGED <<loop, py_seed, np_state, tf_state, d_params, g_params,
                   trainable, dis_collected, gan_collected, e, b, noise, real,
                   fake, X, Y_dis, Y_gen, d_loss, g_loss, saved, shown, steps,
                   update_log, noise_pos, fake_pos, d_update_pos, step_log,
                   run_no, first_run, start, headless, latent, shapes, error,
                   path_exists, open_calls, train_set, X_train, dis_opt,
                   gan_opt, labels, train_set_labels_output, col_n, mnist,
                   cnn, cnn_compiled, plt_show, PATCHCAMELYONFILENAME,
                   n_epochs>>

\* MNIST loops, after the inner loop: d_losses.append(d_loss);
\* g_losses.append(g_loss)
RecordLosses ==
    /\ pc = "record"
    /\ d_losses' = Append(d_losses, d_loss)
    /\ g_losses' = Append(g_losses, g_loss)
    /\ pc' = "vis_check"
    /\ UNCHANGED <<loop, py_seed, np_state, tf_state, d_params, g_params,
                   trainable, dis_collected, gan_collected, e, b, noise, real,
                   fake, X, Y_dis, Y_gen, d_loss, g_loss, saved, shown, steps,
                   update_log, noise_pos, fake_pos, d_update_pos, step_log,
                   run_no, first_run, start, headless, latent, shapes, error,
                   path_exists, open_calls, train_set, X_train, dis_opt,
                   gan_opt, labels, train_set_labels_output, col_n, mnist,
                   cnn, cnn_compiled, plt_show, PATCHCAMELYONFILENAME,
                   n_epochs>>

(***************************************************************************)
(* The periodic branch at the end of an epoch: `if e % 100 == 0` in the    *)
(* 1-D loop, `if e % 5 == 0` in the MNIST loops.                           *)
(***************************************************************************)
\* saveModels(epoch): generator.save(...), discriminator.save(...)
saveModels(epoch) ==
    saved \cup {[epoch |-> epoch, generator |-> g_params,
                 discriminator |-> d_params]}

\* stream values the branch reads: in the 1-D loop a latent and a real batch;
\* in the MLP loop the loop's own `noise` and the one plotGeneratedImages
\* draws; in the CNN loop the loop's `noise`
VisualizeCount(l) ==
    CASE l = "1D"  -> LatentCount(l, NSamples) + RealCount(l, NSamples)
      [] l = "MLP" -> 2 * LatentCount(l, Examples)
      [] l = "CNN" -> LatentCount(l, Examples)

\* variant: the branch also appends the current discriminator loss
VisualizeRecordsLoss ==
    /\ pc = "vis_check"
    /\ e % VisEvery(loop) = 0
    /\ ~headless
    /\ IF loop = "1D"
         THEN LET z == NormalBatch(np_state, 0, NSamples, latent)
              IN  /\ noise' = z
                  /\ fake' = GeneratorPredict(loop, g_params, z)
                  /\ real' = RealBatch(loop, np_state
                                       + LatentCount(loop, NSamples), NSamples)
                  /\ fake_pos' = np_state
                  /\ saved' = saved
         ELSE /\ noise' = NormalBatch(np_state, 0, Examples, latent)
              /\ saved' = saved
              /\ UNCHANGED <<fake, real, fake_pos>>
    /\ noise_pos' = np_state
    /\ np_state' = np_state + VisualizeCount(loop)
    /\ shown' = shown + 1
    /\ plt_show' = (IF loop = "1D" THEN plt_show ELSE plt_show + 1)
    /\ d_losses' = Append(d_losses, d_loss)
    /\ e' = (IF loop = "1D" THEN e + 1 ELSE e)
    /\ pc' = (IF loop = "1D" THEN "epoch" ELSE "save")
    /\ UNCHANGED <<loop, py_seed, tf_state, d_params, g_params, trainable,
                   dis_collected, gan_collected, b, X, Y_dis, Y_gen, d_loss,
                   g_loss, g_losses, steps, update_log, d_update_pos,
                   step_log, run_no, first_run, start, headless, latent,
                   shapes, error, path_exists, open_calls, train_set,
                   X_train, dis_opt, gan_opt, labels,
                   train_set_labels_output, col_n, mnist, cnn, cnn_compiled, PATCHCAMELYONFILENAME,
                   n_epochs>>

\* the branch is taken: draws, predict calls, the figure and the sleep.  In
\* the 1-D loop this ends the iteration; in the MNIST loops saveModels(e)
\* follows the sleep
Visualize ==
    /\ pc = "vis_check"
    /\ e % VisEvery(loop) = 0
    /\ ~headless
    /\ IF loop = "1D"
         THEN LET z == NormalBatch(np_state, 0, NSamples, latent)
              IN  /\ noise' = z
                  /\ fake' = GeneratorPredict(loop, g_params, z)
                  /\ real' = RealBatch(loop, np_state
                                       + LatentCount(loop, NSamples), NSamples)
                  /\ fake_pos' = np_state
                  /\ saved' = saved
         ELSE /\ noise' = NormalBatch(np_state, 0, Examples, latent)
              /\ saved' = saved
              /\ UNCHANGED <<fake, real, fake_pos>>
    /\ noise_pos' = np_state
    /\ np_state' = np_state + VisualizeCount(loop)
    /\ shown' = shown + 1
    /\ plt_show' = (IF loop = "1D" THEN plt_show ELSE plt_show + 1)
    /\ e' = (IF loop = "1D" THEN e + 1 ELSE e)
    /\ pc' = (IF loop = "1D" THEN "epoch" ELSE "save")
    /\ UNCHANGED <<loop, py_seed, tf_state, d_params, g_params, trainable,
                   dis_collected, gan_collected, b, X, Y_dis, Y_gen, d_loss,
                   g_loss, d_losses, g_losses, steps, update_log, d_update_pos,
                   step_log, run_no, first_run, start, headless, latent,
                   shapes, error, path_exists, open_calls, train_set,
                   X_train, dis_opt, gan_opt, labels,
                   train_set_labels_output, col_n, mnist, cnn, cnn_compiled, PATCHCAMELYONFILENAME,
                   n_epochs>>

\* saveModels(e), the last statement of the branch in the MNIST loops, after
\* time.sleep(0.001); it ends the epoch
SaveModels ==
    /\ pc = "save"
    /\ saved' = saveModels(e)
    /\ e' = e + 1
    /\ pc' = "epoch"
    /\ UNCHANGED <<loop, py_seed, np_state, tf_state, d_params, g_params,
                   trainable, dis_collected, gan_collected, b, noise, real,
                   fake, X, Y_dis, Y_gen, d_loss, g_loss, d_losses, g_losses,
                   shown, steps, update_log, noise_pos, fake_pos,
                   d_update_pos, step_log, run_no, first_run, start, headless,
                   latent, shapes, error, path_exists, open_calls, train_set,
                   X_train, dis_opt, gan_opt, labels,
                   train_set_labels_output, col_n, mnist, cnn, cnn_compiled,
                   plt_show, PATCHCAMELYONFILENAME, n_epochs>>

\* the branch is not taken
SkipVisualization ==
    /\ pc = "vis_check"
    /\ e % VisEvery(loop) # 0
    /\ e' = e + 1
    /\ pc' = "epoch"
    /\ UNCHANGED <<loop, py_seed, np_state, tf_state, d_params, g_params,
                   trainable, dis_collected, gan_collected, b, noise, real,
                   fake, X, Y_dis, Y_gen, d_loss, g_loss, d_losses, g_losses,
                   saved, shown, steps, update_log, noise_pos, fake_pos,
                   d_update_pos, step_log, run_no, first_run, start, headless,
                   latent, shapes, error, path_exists, open_calls, train_set,
                   X_train, dis_opt, gan_opt, labels,
                   train_set_labels_output, col_n, mnist, cnn, cnn_compiled,
                   plt_show, PATCHCAMELYONFILENAME, n_epochs>>

(***************************************************************************)
(* One run of the notebook.                                                *)
(***************************************************************************)
Next ==
    \/ ImportCell
    \/ LoadMNIST
    \/ PatchCamelyonCellNameError
    \/ BuildModels
    \/ InitLoop
    \/ EpochHead
    \/ BatchHead
    \/ DrawBatches
    \/ EnableDiscriminator
    \/ TrainDiscriminator
    \/ FreezeDiscriminator
    \/ FreshNoise
    \/ TrainGenerator
    \/ RecordLosses
    \/ Visualize
    \/ SaveModels
    \/ SkipVisualization

Spec == Init /\ [][Next]_vars

(***************************************************************************)
(* The same notebook with a 1-D loop long enough to pass its visualization *)
(* period twice: iterations 0, 100 and 200 take the branch.                *)
(***************************************************************************)
InitLong ==
    \E l \in Sections, np0 \in 0..(Entropy - 1), tf0 \in 0..(Entropy - 1) :
        /\ FreshKernel(l, np0, tf0)
        /\ run_no = 1
        /\ first_run = NoRun
        /\ headless = FALSE
        /\ path_exists = TRUE
        /\ PATCHCAMELYONFILENAME = "undefined"
        /\ n_epochs = IF l = "1D" THEN Epochs1DLong ELSE epochs(l)

SpecLong == InitLong /\ [][Next]_vars

(***************************************************************************)
(* Running the notebook a second time.  A restarted kernel runs the import *)
(* cell again, so Python's `random` is seeded with 0 again; numpy's and    *)
(* the backend's generators, which the notebook never seeds, start where   *)
(* the new process puts them.                                              *)
(***************************************************************************)
RerunNotebook ==
    /\ pc = "done"
    /\ run_no = 1
    /\ \E np0 \in 0..(Entropy - 1), tf0 \in 0..(Entropy - 1) :
          RestartKernel(loop, np0, tf0)
    /\ run_no' = 2
    /\ first_run' = [np |-> start.np, tf |-> start.tf, log |-> step_log]
    /\ headless' = FALSE
    /\ path_exists' = path_exists
    /\ PATCHCAMELYONFILENAME' = PATCHCAMELYONFILENAME
    /\ n_epochs' = n_epochs

NextRerun == Next \/ RerunNotebook

SpecRerun == Init /\ [][NextRerun]_vars

(***************************************************************************)
(* The headless variant: the same notebook, started from the same stream   *)
(* positions (hence the same initial weights), with the visualization of   *)
(* the periodic branch elided.  saveModels is persistence, not             *)
(* visualization, and stays.                                               *)
(***************************************************************************)
RerunHeadless ==
    /\ pc = "done"
    /\ run_no = 1
    /\ RestartKernel(loop, start.np, start.tf)
    /\ run_no' = 2
    /\ first_run' = [np |-> start.np, tf |-> start.tf, log |-> step_log]
    /\ headless' = TRUE
    /\ path_exists' = path_exists
    /\ PATCHCAMELYONFILENAME' = PATCHCAMELYONFILENAME
    /\ n_epochs' = n_epochs

ElideVisualization ==
    /\ pc = "vis_check"
    /\ e % VisEvery(loop) = 0
    /\ headless
    /\ e' = (IF loop = "1D" THEN e + 1 ELSE e)
    /\ pc' = (IF loop = "1D" THEN "epoch" ELSE "save")
    /\ UNCHANGED <<loop, py_seed, np_state, tf_state, d_params, g_params,
                   trainable, dis_collected, gan_collected, b, noise, real,
                   fake, X, Y_dis, Y_gen, d_loss, g_loss, d_losses, g_losses,
                   saved, shown, steps, update_log, noise_pos, fake_pos, d_update_pos,
                   step_log, run_no, first_run, start, headless, latent,
                   shapes, error, path_exists, open_calls, train_set,
                   X_train, dis_opt, gan_opt, labels,
                   train_set_labels_output, col_n, mnist, cnn, cnn_compiled,
                   plt_show, PATCHCAMELYONFILENAME, n_epochs>>

NextHeadless == Next \/ RerunHeadless \/ ElideVisualization

SpecHeadless == Init /\ [][NextHeadless]_vars

(***************************************************************************)
(* One trainer step executed twice.  After a step has completed, the       *)
(* weights of both networks are put back to what they were when the step   *)
(* began, and so are the optimizers; random.seed(0) is applied again and   *)
(* the step is executed again on the same batch X, Y_dis.  numpy's and the *)
(* backend's generators, which the notebook never seeds, are where the     *)
(* first execution left them.                                              *)
(***************************************************************************)
\* the weights with which trainer step k began
ParamsBefore(k) ==
    IF k = 1 THEN [d |-> InitWeight(start.tf), g |-> InitWeight(start.tf + 1)]
             ELSE [d |-> step_log[k - 1].d, g |-> step_log[k - 1].g]

\* the synthetic batch of trainer step k: generator.predict on its latent batch
FakeOfStep(k) == GeneratorPredict(loop, ParamsBefore(k).g, step_log[k].latent_d)

RepeatStep ==
    /\ pc = (IF loop = "1D" THEN "vis_check" ELSE "batch")
    /\ run_no = 1
    /\ steps >= 1
    /\ loop # "1D" => b >= 1
    /\ d_params' = ParamsBefore(steps).d
    /\ g_params' = ParamsBefore(steps).g
    /\ py_seed' = 0
    /\ trainable' = FALSE
    /\ noise' = step_log[steps].latent_d
    /\ noise_pos' = fake_pos
    /\ d_losses' = IF loop = "1D" THEN SubSeq(d_losses, 1, Len(d_losses) - 1)
                                  ELSE d_losses
    /\ g_losses' = IF loop = "1D" THEN SubSeq(g_losses, 1, Len(g_losses) - 1)
                                  ELSE g_losses
    /\ b' = IF loop = "1D" THEN b ELSE b - 1
    /\ steps' = steps - 1
    /\ update_log' = SubSeq(update_log, 1, Len(update_log) - 2)
    /\ step_log' = [step_log EXCEPT ![steps] = Unfinished(@)]
    /\ dis_opt' = step_log[steps].dis_opt
    /\ gan_opt' = step_log[steps].gan_opt
    /\ run_no' = 2
    /\ first_run' = [np |-> start.np, tf |-> start.tf, log |-> step_log]
    /\ pc' = "d_enable"
    /\ UNCHANGED <<loop, np_state, tf_state, dis_collected, gan_collected, e,
                   real, fake, X, Y_dis, Y_gen, d_loss, g_loss, saved, shown,
                   fake_pos, d_update_pos, start, headless, latent, shapes,
                   error, path_exists, open_calls, train_set, X_train, labels, train_set_labels_output,
                   col_n, mnist, cnn, cnn_compiled, plt_show,
                   PATCHCAMELYONFILENAME, n_epochs>>

NextRepeat == Next \/ RepeatStep

SpecRepeat == Init /\ [][NextRepeat]_vars

(***************************************************************************)
(* Numeric instability.  The arithmetic of a train_on_batch call may       *)
(* overflow; from then on the weights the call works with are not finite.  *)
(* The loops contain no test of a loss or a weight, so the run goes on     *)
(* with what the calls return.                                             *)
(***************************************************************************)
NumericInstability ==
    /\ pc \in {"d_train", "g_train"}
    /\ IsFinite(d_params)
    /\ IsFinite(g_params)
    /\ d_params' = IF pc = "d_train" THEN NaN ELSE d_params
    /\ g_params' = IF pc = "g_train" THEN NaN ELSE g_params
    /\ UNCHANGED <<loop, pc, py_seed, np_state, tf_state, trainable,
                   dis_collected, gan_collected, e, b, noise, real, fake, X,
                   Y_dis, Y_gen, d_loss, g_loss, d_losses, g_losses, saved,
                   shown, steps, update_log, noise_pos, fake_pos, d_update_pos,
                   step_log, run_no, first_run, start, headless, latent,
                   shapes, error, path_exists, open_calls, train_set,
                   X_train, dis_opt, gan_opt, labels,
                   train_set_labels_output, col_n, mnist, cnn, cnn_compiled,
                   plt_show, PATCHCAMELYONFILENAME, n_epochs>>

NextDiverge == Next \/ NumericInstability

SpecDiverge == Init /\ [][NextDiverge]_vars

(***************************************************************************)
(* Runs that fail.  The notebook keeps latent_dim in a global that two     *)
(* cells assign (1 before the 1-D cells, 10 before the MNIST cells); the   *)
(* generator's input dimension is fixed when the setup cell builds it.     *)
(* When the other assignment has run before the setup cell or between the  *)
(* setup cell and the training cell, the framework's input check raises an *)
(* exception, which ends the run: nothing in the notebook catches it.      *)
(* The dataset file may be missing, and the runs of the PatchCamelyon      *)
(* cells include those in which PATCHCAMELYONFILENAME has been bound, so   *)
(* that loadPatchCamelyon is entered.                                      *)
(***************************************************************************)
\* latent_dim = 1 / latent_dim = 10, run out of order
ReassignLatentDim ==
    /\ pc \in {"setup", "loop_init"}
    /\ latent' \in {latent_dim_1D, latent_dim_MNIST} \ {latent}
    /\ UNCHANGED <<loop, pc, py_seed, np_state, tf_state, d_params, g_params,
                   trainable, dis_collected, gan_collected, e, b, noise, real,
                   fake, X, Y_dis, Y_gen, d_loss, g_loss, d_losses, g_losses,
                   saved, shown, steps, update_log, noise_pos, fake_pos,
                   d_update_pos, step_log, run_no, first_run, start, headless,
                   shapes, error, path_exists, open_calls, train_set, X_train,
                   dis_opt, gan_opt, labels, train_set_labels_output, col_n,
                   mnist, cnn, cnn_compiled, plt_show, PATCHCAMELYONFILENAME,
                   n_epochs>>

\* the setup cell up to G_z = generator(z): both networks are built and
\* compiled, then the call of the generator on z = Input(shape=(latent_dim,))
\* raises
BuildModelsFails ==
    /\ pc = "setup"
    /\ ~InputAccepted(<<latent>>, GeneratorInputShape(loop, latent))
    /\ d_params' = InitWeight(tf_state)
    /\ g_params' = InitWeight(tf_state + 1)
    /\ tf_state' = tf_state + 2
    /\ dis_collected' = {"discriminator"}
    /\ dis_opt' = FreshAdam
    /\ trainable' = SetupTrainable
    /\ shapes' = BuiltShapes(loop, latent)
    /\ error' = "dimension_mismatch"
    /\ pc' = "error"
    /\ UNCHANGED <<loop, py_seed, np_state, gan_collected, e, b, noise, real,
                   fake, X, Y_dis, Y_gen, d_loss, g_loss, d_losses, g_losses,
                   saved, shown, steps, update_log, noise_pos, fake_pos,
                   d_update_pos, step_log, run_no, first_run, start, headless,
                   latent, path_exists, open_calls, train_set, X_train,
                   gan_opt, labels, train_set_labels_output, col_n, mnist,
                   cnn, cnn_compiled, plt_show, PATCHCAMELYONFILENAME,
                   n_epochs>>

\* the first statements of a trainer step up to generator.predict(noise): the
\* latent batch and the real batch are drawn, then predict raises
DrawBatchesFails ==
    /\ pc = "draw"
    /\ ~InputAccepted(<<latent>>, shapes.gen_in)
    /\ LET n == n_batch(loop)
       IN  /\ noise' = NormalBatch(np_state, 0, n, latent)
           /\ real' = RealBatch(loop, np_state + LatentCount(loop, n), n)
           /\ np_state' = np_state + LatentCount(loop, n) + RealCount(loop, n)
    /\ noise_pos' = np_state
    /\ shapes' = [shapes EXCEPT !.noise = <<latent>>,
                                !.real = RealSampleShape(loop, latent)]
    /\ error' = "dimension_mismatch"
    /\ pc' = "error"
    /\ UNCHANGED <<loop, py_seed, tf_state, d_params, g_params, trainable,
                   dis_collected, gan_collected, e, b, fake, X, Y_dis, Y_gen,
                   d_loss, g_loss, d_losses, g_losses, saved, shown, steps,
                   update_log, fake_pos, d_update_pos, step_log, run_no,
                   first_run, start, headless, latent, path_exists, open_calls,
                   train_set, X_train, dis_opt, gan_opt, labels,
                   train_set_labels_output, col_n, mnist, cnn, cnn_compiled,
                   plt_show, PATCHCAMELYONFILENAME, n_epochs>>

InitFaults ==
    \E l \in Sections, np0 \in 0..(Entropy - 1), tf0 \in 0..(Entropy - 1) :
        /\ FreshKernel(l, np0, tf0)
        /\ run_no = 1
        /\ first_run = NoRun
        /\ headless = FALSE
        /\ path_exists \in BOOLEAN
        /\ PATCHCAMELYONFILENAME \in FilenameBindings(l)
        /\ n_epochs = epochs(l)

NextFaults ==
    \/ Next
    \/ ReassignLatentDim
    \/ BuildModelsFails
    \/ DrawBatchesFails
    \/ LoadMNISTFails
    \/ LoadPatchCamelyon
    \/ LoadPatchCamelyonFails

SpecFaults == InitFaults /\ [][NextFaults]_vars

(***************************************************************************)
(* A trainer step started again from restored state.  After step k has     *)
(* completed, part of what step k began with is put back and the step is   *)
(* executed again, from its first statement, with the same random draws.   *)
(* ReplayFromWeights puts back the weights of both networks and the loss   *)
(* histories and leaves everything else as step k left it.                 *)
(* ReplayFromCarriedState also puts back the state of the two optimizers,  *)
(* and instead of keeping the flag discriminator.trainable and the batch   *)
(* variables it overwrites them with arbitrary values.                     *)
(***************************************************************************)
ReplayFromWeights ==
    /\ pc = (IF loop = "1D" THEN "vis_check" ELSE "batch")
    /\ run_no = 1
    /\ steps >= 1
    /\ loop # "1D" => b >= 1
    /\ d_params' = ParamsBefore(steps).d
    /\ g_params' = ParamsBefore(steps).g
    /\ d_losses' = IF loop = "1D" THEN SubSeq(d_losses, 1, Len(d_losses) - 1)
                                  ELSE d_losses
    /\ g_losses' = IF loop = "1D" THEN SubSeq(g_losses, 1, Len(g_losses) - 1)
                                  ELSE g_losses
    /\ np_state' = step_log[steps].np
    /\ tf_state' = step_log[steps].tf
    /\ b' = IF loop = "1D" THEN b ELSE b - 1
    /\ steps' = steps - 1
    /\ update_log' = SubSeq(update_log, 1, Len(update_log) - 2)
    /\ step_log' = SubSeq(step_log, 1, Len(step_log) - 1)
    /\ run_no' = 2
    /\ first_run' = [np |-> start.np, tf |-> start.tf, log |-> step_log,
                     restored |-> "weights", dis_opt |-> dis_opt,
                     gan_opt |-> gan_opt]
    /\ pc' = "draw"
    /\ UNCHANGED <<loop, py_seed, trainable, dis_collected, gan_collected, e,
                   noise, real, fake, X, Y_dis, Y_gen, d_loss, g_loss, saved,
                   shown, noise_pos, fake_pos, d_update_pos, start, headless,
                   latent, shapes, error, path_exists, open_calls, train_set,
                   X_train, dis_opt, gan_opt, labels,
                   train_set_labels_output, col_n, mnist, cnn, cnn_compiled,
                   plt_show, PATCHCAMELYONFILENAME, n_epochs>>

ReplayFromCarriedState ==
    /\ pc = (IF loop = "1D" THEN "vis_check" ELSE "batch")
    /\ run_no = 1
    /\ steps >= 1
    /\ loop # "1D" => b >= 1
    /\ d_params' = ParamsBefore(steps).d
    /\ g_params' = ParamsBefore(steps).g
    /\ d_losses' = IF loop = "1D" THEN SubSeq(d_losses, 1, Len(d_losses) - 1)
                                  ELSE d_losses
    /\ g_losses' = IF loop = "1D" THEN SubSeq(g_losses, 1, Len(g_losses) - 1)
                                  ELSE g_losses
    /\ np_state' = step_log[steps].np
    /\ tf_state' = step_log[steps].tf
    /\ dis_opt' = step_log[steps].dis_opt
    /\ gan_opt' = step_log[steps].gan_opt
    /\ trainable' \in BOOLEAN
    /\ \E junk \in {<<>>, <<0, 0>>} :
          /\ noise' = junk /\ real' = junk /\ fake' = junk
          /\ X' = junk /\ Y_dis' = junk /\ Y_gen' = junk
    /\ d_loss' = -1
    /\ g_loss' = -1
    /\ b' = IF loop = "1D" THEN b ELSE b - 1
    /\ steps' = steps - 1
    /\ update_log' = SubSeq(update_log, 1, Len(update_log) - 2)
    /\ step_log' = SubSeq(step_log, 1, Len(step_log) - 1)
    /\ run_no' = 2
    /\ first_run' = [np |-> start.np, tf |-> start.tf, log |-> step_log,
                     restored |-> "carried", dis_opt |-> dis_opt,
                     gan_opt |-> gan_opt]
    /\ pc' = "draw"
    /\ UNCHANGED <<loop, py_seed, dis_collected, gan_collected, e, saved,
                   shown, noise_pos, fake_pos, d_update_pos, start, headless,
                   latent, shapes, error, path_exists, open_calls, train_set,
                   X_train, labels, train_set_labels_output,
                   col_n, mnist, cnn, cnn_compiled, plt_show,
                   PATCHCAMELYONFILENAME, n_epochs>>

NextReplay == Next \/ ReplayFromWeights \/ ReplayFromCarriedState

SpecReplay == Init /\ [][NextReplay]_vars

(***************************************************************************)
(* The classification notebook (mnist_practical_keras.ipynb), from its     *)
(* import cell to cnn.compile.  The labels are the digits the loader       *)
(* returned, numbers between 0 and 9.                                      *)
(***************************************************************************)
\* variant: column n is set where the label is n + 1
LabelEqualsShifted(L, k) == [i \in 1..Len(L) |-> IF L[i] = k + 1 THEN 1 ELSE 0]

\* train_set_labels==n, stored into an int16 column: 1 where the label is n,
\* 0 elsewhere
LabelEquals(L, k) == [i \in 1..Len(L) |-> IF L[i] = k THEN 1 ELSE 0]

\* the pickled file: per split a matrix of 784 numbers per image, here as
\* one flat sequence of pixel values, and a list of labels
PickledImages(split, count) ==
    [k \in 1..(count * ImageSide * ImageSide) |-> (7 * k + 3 * split) % 256]

PickledLabels(split, count) == [i \in 1..count |-> (3 * i + split) % NumClasses]

\* np.resize(a, (count, h, w, 1)): the elements of a in order, repeated
\* from the start as often as needed, in the new shape
np_resize(a, count, h, w) ==
    LET size == Len(a)
    IN  [i \in 1..count |-> [r \in 1..h |-> [c \in 1..w |->
            <<a[((((i - 1) * h + (r - 1)) * w + (c - 1)) % size) + 1]>>]]]

\* variant: the border is put after the image only, ((0,0),(0,4),(0,4),(0,0))
np_pad_after(a, p) ==
    LET h == Len(a[1])
        w == Len(a[1][1])
    IN  [i \in 1..Len(a) |->
            [r \in 1..(h + 2 * p) |->
                [c \in 1..(w + 2 * p) |->
                    IF r \in 1..h /\ c \in 1..w
                      THEN a[i][r][c] ELSE <<0>>]]]

\* np.pad(a, ((0,0),(p,p),(p,p),(0,0)), 'constant', constant_values=0)
np_pad(a, p) ==
    LET h == Len(a[1])
        w == Len(a[1][1])
    IN  [i \in 1..Len(a) |->
            [r \in 1..(h + 2 * p) |->
                [c \in 1..(w + 2 * p) |->
                    IF r \in (p + 1)..(p + h) /\ c \in (p + 1)..(p + w)
                      THEN a[i][r - p][c - p] ELSE <<0>>]]]

\* input_shape=(32, 32, 1) of layer0
LeNetInputShape == <<32, 32, 1>>

\* the images of one split as loadMNIST returns them
LoadImages(raw, lbls) ==
    np_pad(np_resize(raw, Len(lbls), ImageSide, ImageSide), PadWidth)

\* loadMNIST(path), given the training labels found in the file
loadMNIST(L) ==
    [train_set_images |-> LoadImages(PickledImages(0, Len(L)), L),
     valid_set_labels |-> PickledLabels(1, NValid),
     valid_set_images |-> LoadImages(PickledImages(1, NValid),
                                     PickledLabels(1, NValid)),
     test_set_labels  |-> PickledLabels(2, NTest),
     test_set_images  |-> LoadImages(PickledImages(2, NTest),
                                     PickledLabels(2, NTest))]

\* the import cell of the classification notebook; it ends with
\* random.seed(0)
ImportCellLeNet ==
    /\ loop = "LeNet"
    /\ pc = "import"
    /\ py_seed' = 0
    /\ pc' = "load"
    /\ UNCHANGED <<loop, np_state, tf_state, d_params, g_params, trainable,
                   dis_collected, gan_collected, e, b, noise, real, fake, X,
                   Y_dis, Y_gen, d_loss, g_loss, d_losses, g_losses, saved,
                   shown, steps, update_log, noise_pos, fake_pos, d_update_pos,
                   step_log, run_no, first_run, start, headless, latent,
                   shapes, path_exists, train_set, X_train, dis_opt, gan_opt,
                   train_set_labels_output, col_n, cnn, cnn_compiled,
                   error, open_calls, labels, mnist,
                   plt_show, PATCHCAMELYONFILENAME, n_epochs>>

\* train_set_labels, ... = loadMNIST(path), the file being at the path
LoadLabels ==
    /\ loop = "LeNet"
    /\ pc = "load"
    /\ path_exists
    /\ open_calls' = open_calls + 1
    /\ \E L \in [1..NLabels -> 0..(NumClasses - 1)] :
          /\ labels' = L
          /\ mnist' = loadMNIST(L)
    /\ pc' = "onehot_zeros"
    /\ UNCHANGED <<loop, np_state, tf_state, d_params, g_params, trainable,
                   dis_collected, gan_collected, e, b, noise, real, fake, X,
                   Y_dis, Y_gen, d_loss, g_loss, d_losses, g_losses, saved,
                   shown, steps, update_log, noise_pos, fake_pos, d_update_pos,
                   step_log, run_no, first_run, start, headless, latent,
                   shapes, path_exists, train_set, X_train, dis_opt, gan_opt,
                   train_set_labels_output, col_n, cnn, cnn_compiled,
                   error, py_seed,
                   plt_show, PATCHCAMELYONFILENAME, n_epochs>>

\* the same cell when no file is at the path: gzip.open raises, no name is
\* bound and no later cell can run
LoadLabelsFails ==
    /\ loop = "LeNet"
    /\ pc = "load"
    /\ ~path_exists
    /\ open_calls' = open_calls + 1
    /\ error' = "file_not_found"
    /\ pc' = "error"
    /\ UNCHANGED <<loop, np_state, tf_state, d_params, g_params, trainable,
                   dis_collected, gan_collected, e, b, noise, real, fake, X,
                   Y_dis, Y_gen, d_loss, g_loss, d_losses, g_losses, saved,
                   shown, steps, update_log, noise_pos, fake_pos, d_update_pos,
                   step_log, run_no, first_run, start, headless, latent,
                   shapes, path_exists, train_set, X_train, dis_opt, gan_opt,
                   train_set_labels_output, col_n, cnn, cnn_compiled,
                   py_seed, labels, mnist,
                   plt_show, PATCHCAMELYONFILENAME, n_epochs>>

\* train_set_labels_output = np.zeros((len(train_set_labels),10),dtype=np.int16)
OneHotZeros ==
    /\ pc = "onehot_zeros"
    /\ train_set_labels_output' =
          [i \in 1..Len(labels) |-> [k \in 1..NumClasses |-> 0]]
    /\ col_n' = 0
    /\ pc' = "onehot_loop"
    /\ UNCHANGED <<loop, py_seed, np_state, tf_state, d_params, g_params,
                   trainable, dis_collected, gan_collected, e, b, noise, real,
                   fake, X, Y_dis, Y_gen, d_loss, g_loss, d_losses, g_losses,
                   saved, shown, steps, update_log, noise_pos, fake_pos,
                   d_update_pos, step_log, run_no, first_run, start, headless,
                   latent, shapes, error, path_exists, open_calls, train_set,
                   X_train, dis_opt, gan_opt, labels, mnist, cnn,
                   cnn_compiled, plt_show, PATCHCAMELYONFILENAME, n_epochs>>

\* for n in range(10): train_set_labels_output[:,n] = train_set_labels==n
OneHotColumn ==
    /\ pc = "onehot_loop"
    /\ IF col_n < NumClasses
         THEN /\ train_set_labels_output' =
                    [i \in 1..Len(labels) |->
                        [train_set_labels_output[i] EXCEPT
                            ![col_n + 1] = LabelEquals(labels, col_n)[i]]]
              /\ col_n' = col_n + 1
              /\ pc' = pc
         ELSE /\ pc' = "onehot_done"
              /\ UNCHANGED <<train_set_labels_output, col_n>>
    /\ UNCHANGED <<loop, py_seed, np_state, tf_state, d_params, g_params,
                   trainable, dis_collected, gan_collected, e, b, noise, real,
                   fake, X, Y_dis, Y_gen, d_loss, g_loss, d_losses, g_losses,
                   saved, shown, steps, update_log, noise_pos, fake_pos,
                   d_update_pos, step_log, run_no, first_run, start, headless,
                   latent, shapes, error, path_exists, open_calls, train_set,
                   X_train, dis_opt, gan_opt, labels, mnist, cnn,
                   cnn_compiled, plt_show, PATCHCAMELYONFILENAME, n_epochs>>

(***************************************************************************)
(* The network of the classification notebook.  This notebook leaves the   *)
(* image data format at its default, channels last, and its convolutions   *)
(* and poolings at the default padding, 'valid'.  Shapes are per sample:   *)
(* the leading None of the printed shapes is left out.                     *)
(***************************************************************************)
\* keras.layers.Conv2D(filters, (k, k), activation='relu')
LeNetConv2D(filters, k) ==
    [op |-> "Conv2D", n |-> filters, stride |-> k, target |-> <<>>]

\* keras.layers.MaxPooling2D(pool_size=(p, p))
MaxPooling2D(p) == [op |-> "MaxPooling2D", n |-> p, stride |-> p, target |-> <<>>]

\* layer0 .. layer7
LeNetLayers ==
    <<LeNetConv2D(6, 5), MaxPooling2D(2), LeNetConv2D(16, 5), MaxPooling2D(2),
      Flatten, Dense(120), Dense(84), Dense(10)>>

\* variant: convolutions with padding='same'
LeNetLayerOutputShapeSame(layer, s) ==
    CASE layer.op = "Conv2D" -> <<s[1], s[2], layer.n>>
      [] layer.op = "MaxPooling2D" ->
            <<s[1] \div layer.n, s[2] \div layer.n, s[3]>>
      [] layer.op = "Flatten" -> <<Product(s)>>
      [] layer.op = "Dense" -> <<layer.n>>

\* the output shape of one layer of cnn on input shape s
LeNetLayerOutputShape(layer, s) ==
    CASE layer.op = "Conv2D" ->
            <<s[1] - layer.stride + 1, s[2] - layer.stride + 1, layer.n>>
      [] layer.op = "MaxPooling2D" ->
            <<s[1] \div layer.n, s[2] \div layer.n, s[3]>>
      [] layer.op = "Flatten" -> <<Product(s)>>
      [] layer.op = "Dense" -> <<layer.n>>

\* cnn.add(layer): the first layer takes its declared input shape, every
\* later layer the output shape of the layer before it
RECURSIVE AddLayers(_, _)
AddLayers(model, layers) ==
    IF layers = <<>> THEN model
    ELSE LET in  == IF model = <<>> THEN LeNetInputShape
                    ELSE model[Len(model)].output_shape
             out == LeNetLayerOutputShape(Head(layers), in)
         IN  AddLayers(Append(model, [input_shape |-> in, output_shape |-> out]),
                       Tail(layers))

\* what the cell prints: layer0.input_shape, then every layer's output_shape
Printed(model) ==
    <<model[1].input_shape>> \o [k \in 1..Len(model) |-> model[k].output_shape]

\* cnn = keras.models.Sequential(); cnn.add(layer0); ... cnn.add(layer7)
BuildLeNet ==
    /\ pc = "onehot_done"
    /\ cnn' = AddLayers(<<>>, LeNetLayers)
    /\ tf_state' = tf_state + 1
    /\ pc' = "cnn_built"
    /\ UNCHANGED <<loop, py_seed, np_state, d_params, g_params,
                   trainable, dis_collected, gan_collected, e, b, noise, real,
                   fake, X, Y_dis, Y_gen, d_loss, g_loss, d_losses, g_losses,
                   saved, shown, steps, update_log, noise_pos, fake_pos,
                   d_update_pos, step_log, run_no, first_run, start, headless,
                   latent, shapes, error, path_exists, open_calls, train_set,
                   X_train, dis_opt, gan_opt, labels, train_set_labels_output,
                   col_n, mnist, cnn_compiled, plt_show,
                   PATCHCAMELYONFILENAME, n_epochs>>

\* sgd = keras.optimizers.SGD(lr=0.001, momentum=0.9);
\* cnn.compile(loss='categorical_crossentropy', optimizer=sgd)
CompileLeNet ==
    /\ pc = "cnn_built"
    /\ cnn_compiled' = [loss |-> "categorical_crossentropy",
                        optimizer |-> "SGD", iterations |-> 0]
    /\ pc' = "compiled"
    /\ UNCHANGED <<loop, py_seed, np_state, tf_state, d_params, g_params,
                   trainable, dis_collected, gan_collected, e, b, noise, real,
                   fake, X, Y_dis, Y_gen, d_loss, g_loss, d_losses, g_losses,
                   saved, shown, steps, update_log, noise_pos, fake_pos,
                   d_update_pos, step_log, run_no, first_run, start, headless,
                   latent, shapes, error, path_exists, open_calls, train_set,
                   X_train, dis_opt, gan_opt, labels, train_set_labels_output,
                   col_n, mnist, cnn,
                   plt_show, PATCHCAMELYONFILENAME, n_epochs>>

InitOneHot ==
    /\ FreshKernel("LeNet", 0, 0)
    /\ run_no = 1
    /\ first_run = NoRun
    /\ headless = FALSE
    /\ path_exists \in BOOLEAN
    /\ PATCHCAMELYONFILENAME = "undefined"
    /\ n_epochs = 0

NextOneHot ==
    \/ ImportCellLeNet
    \/ LoadLabels
    \/ LoadLabelsFails
    \/ OneHotZeros
    \/ OneHotColumn
    \/ BuildLeNet
    \/ CompileLeNet

SpecOneHot == InitOneHot /\ [][NextOneHot]_vars

(***************************************************************************)
(* Positions of the training cell.                                         *)
(***************************************************************************)
\* between trainer steps: before the first, between two, after the last
StepBoundary == {"loop_init", "epoch", "batch", "draw", "record", "vis_check",
                 "save", "done"}

\* epochs whose losses the MNIST loops have recorded
EpochsRecorded == IF pc \in {"vis_check", "save"} THEN e + 1 ELSE e

(***************************************************************************)
(* C1.  In each of the three loops the train_on_batch calls alternate      *)
(* discriminator update, generator update, discriminator update, ...,      *)
(* starting with a discriminator update; a step's generator update is made *)
(* before the next step's discriminator update, and there is no third kind *)
(* of update.                                                              *)
(***************************************************************************)
C1_UpdatesAlternate ==
    /\ \A i \in 1..Len(update_log) :
          update_log[i] = IF i % 2 = 1 THEN "discriminator_update"
                                       ELSE "generator_update"
    /\ Len(update_log) \in {2 * steps, 2 * steps + 1}
    /\ pc \in StepBoundary => Len(update_log) = 2 * steps

C1_Witness ==
    /\ loop = "CNN"
    /\ steps >= 2
    /\ Len(update_log) = 2 * steps + 1

(***************************************************************************)
(* C2.  The generator update, gan.train_on_batch on the composed model,    *)
(* leaves the discriminator's weights as they were immediately before it.  *)
(***************************************************************************)
C2_GeneratorUpdateKeepsDiscriminator ==
    [][pc = "g_train" => d_params' = d_params]_vars

C2_Witness ==
    /\ steps >= 1
    /\ pc \in {"vis_check", "batch"}
    /\ d_params > 0
    /\ g_params # InitWeight(start.tf + 1)
    /\ step_log[Len(step_log)].d = d_params

(***************************************************************************)
(* C3.  As claimed: in each of the three loops every trainer step appends  *)
(* one value to d_losses and one to g_losses, so that after k steps each   *)
(* history has length k, and every appended value is non-negative.         *)
(***************************************************************************)
C3_OneLossPairPerStep ==
    /\ pc \in StepBoundary =>
          Len(d_losses) = steps /\ Len(g_losses) = steps
    /\ \A i \in 1..Len(d_losses) : d_losses[i] >= 0
    /\ \A i \in 1..Len(g_losses) : g_losses[i] >= 0

(***************************************************************************)
(* C3, amended.  The 1-D loop appends one value to each history in every   *)
(* trainer step, so after k steps each has length k.  The MLP and CNN      *)
(* loops append one value to each history per epoch, after the epoch's     *)
(* batch_count trainer steps, and it is the loss of the epoch's last step; *)
(* after k epochs each history has length k.  Every appended value is      *)
(* non-negative.                                                           *)
(***************************************************************************)
C3_LossHistories ==
    /\ (loop = "1D" /\ pc \in StepBoundary) =>
          Len(d_losses) = steps /\ Len(g_losses) = steps
    /\ (loop # "1D" /\ pc \in StepBoundary \ {"loop_init"}) =>
          /\ Len(d_losses) = EpochsRecorded
          /\ Len(g_losses) = EpochsRecorded
          /\ pc \in {"epoch", "done"} => steps = e * batch_count(loop)
    /\ (loop # "1D" /\ pc = "vis_check") =>
          /\ d_losses[Len(d_losses)] = step_log[Len(step_log)].d_loss
          /\ g_losses[Len(g_losses)] = step_log[Len(step_log)].g_loss
    /\ \A i \in 1..Len(d_losses) : d_losses[i] >= 0
    /\ \A i \in 1..Len(g_losses) : g_losses[i] >= 0

C3_Witness ==
    /\ loop = "MLP"
    /\ pc = "done"
    /\ Len(d_losses) = EpochsMNIST
    /\ Len(g_losses) = EpochsMNIST
    /\ steps > Len(d_losses)

(***************************************************************************)
(* C4.  At every discriminator update with batch size n, X has 2n samples, *)
(* the first n are the real batch and the last n the synthetic batch, and  *)
(* Y_dis is aligned with X: the real label (1, or 0.9) on the first n      *)
(* positions and 0 on the last n.  Every label lies in [0, 1] and is the   *)
(* trainer's constant, whatever images were drawn.                         *)
(***************************************************************************)
C4_BatchAndLabelsAligned ==
    pc = "d_train" =>
      LET n == n_batch(loop)
      IN  /\ Len(real) = n
          /\ Len(fake) = n
          /\ Len(X) = 2 * n
          /\ Len(Y_dis) = 2 * n
          /\ \A i \in 1..n : X[i] = real[i] /\ X[n + i] = fake[i]
          /\ \A i \in 1..n : Y_dis[i] = (IF loop = "MLP" THEN 9 ELSE 10)
          /\ \A i \in (n + 1)..(2 * n) : Y_dis[i] = 0
          /\ \A i \in 1..(2 * n) : 0 <= Y_dis[i] /\ Y_dis[i] <= 10

C4_Witness ==
    /\ pc = "d_train"
    /\ loop = "MLP"
    /\ steps >= 1
    /\ \E i \in 1..Len(real) : real[i] # fake[i]

(***************************************************************************)
(* C5.  discriminator.trainable is True at every call of                   *)
(* discriminator.train_on_batch, False at every call of                    *)
(* gan.train_on_batch, and False at every step boundary: before the first  *)
(* step, between steps and after the loop.                                 *)
(***************************************************************************)
C5_TrainableFlag ==
    /\ pc = "d_train" => trainable = TRUE
    /\ pc = "g_train" => trainable = FALSE
    /\ pc \in StepBoundary => trainable = FALSE

C5_Witness ==
    /\ pc = "draw"
    /\ steps >= 1
    /\ trainable = FALSE
    /\ update_log[Len(update_log)] = "generator_update"

(***************************************************************************)
(* C6.  At every generator update the latent batch is one drawn after the  *)
(* step's discriminator update, not the batch the step's synthetic samples *)
(* came from; it has the batch size of the step, and its target vector is  *)
(* all ones and as long as the batch.                                      *)
(***************************************************************************)
C6_FreshLatentBatch ==
    pc = "g_train" =>
      /\ noise_pos >= d_update_pos
      /\ noise_pos >= fake_pos + LatentCount(loop, n_batch(loop))
      /\ Len(noise) = n_batch(loop)
      /\ Len(noise) = Len(fake)
      /\ \A i \in 1..Len(noise) : Len(noise[i]) = latent_dim(loop)
      /\ Len(Y_gen) = Len(noise)
      /\ \A i \in 1..Len(Y_gen) : Y_gen[i] = 10

C6_Witness ==
    /\ pc = "g_train"
    /\ steps >= 1
    /\ noise # step_log[Len(step_log)].latent_d

(***************************************************************************)
(* C7.  A run ends after exactly epochs * batches-per-epoch trainer steps, *)
(* whatever the losses were: it makes no step beyond that count and does   *)
(* not leave the loop before it.  With the notebook's numbers that is      *)
(* 10000 steps in the 1-D loop and 200 * int(50000 / 128) = 200 * 390      *)
(* steps in the MNIST loops.                                               *)
(***************************************************************************)
\* the largest k with k * bs <= N
WholeBatches(N, bs) == CHOOSE k \in 0..N : k * bs <= N /\ (k + 1) * bs > N

ExpectedSteps ==
    IF loop = "1D" THEN Epochs1D
                   ELSE EpochsMNIST * WholeBatches(NTrain, BatchSize)

C7_FixedStepCount ==
    /\ steps <= ExpectedSteps
    /\ pc = "done" => steps = ExpectedSteps
    /\ (loop \in Loops /\ pc # "done") => ENABLED Next
    /\ Src_epochs_1D * batch_count("1D") = 10000
    /\ batch_count_of(Src_N, Src_batch_size) = 390
    /\ Src_epochs_MNIST * batch_count_of(Src_N, Src_batch_size) = 200 * 390

C7_Witness ==
    /\ pc = "done"
    /\ loop = "CNN"
    /\ steps = EpochsMNIST * WholeBatches(NTrain, BatchSize)
    /\ steps > EpochsMNIST
    /\ \E i, j \in 1..Len(step_log) : step_log[i].d_loss # step_log[j].d_loss

(***************************************************************************)
(* C8.  Only the two update sub-steps change the networks' weights: every  *)
(* other operation of the loop (generator.predict for the synthetic batch, *)
(* the visualization branch with its predict calls, saveModels) leaves the *)
(* weights of both networks and both loss histories as they were.          *)
(***************************************************************************)
C8_OnlyUpdatesChangeWeights ==
    [][/\ pc \in (StepBoundary \cup {"d_enable", "freeze", "g_draw"}) =>
            (d_params' = d_params /\ g_params' = g_params)
       /\ pc \in {"draw", "vis_check", "save", "d_enable", "freeze", "g_draw",
                  "epoch", "batch"} =>
            (d_losses' = d_losses /\ g_losses' = g_losses)]_vars

C8_Witness ==
    /\ pc = "epoch"
    /\ loop # "1D"
    /\ shown >= 1
    /\ \E f \in saved : f.generator = g_params /\ f.discriminator = d_params
    /\ Len(d_losses) = e
    /\ steps >= 1

(***************************************************************************)
(* C9.  Eliding the visualization is safe: from the same initial weights   *)
(* and the same random seed, the run that visualizes and the run that does *)
(* not have, at every step, the same real batch, latent batches, weights   *)
(* and losses.                                                             *)
(***************************************************************************)
C9_ElisionPreservesRun ==
    (run_no = 2 /\ headless) =>
        \A k \in 1..steps : step_log[k] = first_run.log[k]

(***************************************************************************)
(* C10.  With the seed fixed as the notebook fixes it, two runs of the     *)
(* same loop draw the same batches: at every step the real batch and both  *)
(* latent batches of the second run are those of the first.                *)
(***************************************************************************)
C10_DrawsReproducible ==
    (run_no = 2 /\ py_seed = 0) =>
        \A k \in 1..Len(step_log) :
            /\ step_log[k].latent_d = first_run.log[k].latent_d
            /\ step_log[k].real_b = first_run.log[k].real_b
            /\ k <= steps => step_log[k].latent_g = first_run.log[k].latent_g

(***************************************************************************)
(* C11.  A trainer step is deterministic: executed twice from the same     *)
(* weights of both networks, the same seed and the same 2-sample batch of  *)
(* all-identical real and synthetic inputs, it returns the same            *)
(* discriminator loss and the same generator loss both times.              *)
(***************************************************************************)
\* step k was made on a batch whose real and synthetic samples are all equal
IdenticalBatch(k) ==
    LET S == Concatenate(step_log[k].real_b, FakeOfStep(k))
    IN  /\ Len(step_log[k].real_b) = 2
        /\ \A i, j \in 1..Len(S) : S[i] = S[j]

C11_StepDeterministic ==
    (run_no = 2 /\ py_seed = 0 /\ IdenticalBatch(Len(first_run.log))) =>
        LET k == Len(first_run.log)
        IN  /\ (Len(step_log) = k /\ pc \in {"freeze", "g_draw", "g_train"}) =>
                  d_loss = first_run.log[k].d_loss
            /\ steps >= k =>
                  /\ step_log[k].d_loss = first_run.log[k].d_loss
                  /\ step_log[k].g_loss = first_run.log[k].g_loss

(***************************************************************************)
(* C12.  During a training run each loss history is append-only and in     *)
(* time order: a statement of the loop either leaves a history as it is or *)
(* appends one value at its end, so no entry is modified, removed or       *)
(* reordered and entry i was recorded before entry i+1; and every entry is *)
(* the scalar loss one network returned in one trainer step: in the 1-D    *)
(* loop entry i is the loss of step i, in the MNIST loops entry i is the   *)
(* loss of the last step of epoch i.                                       *)
(***************************************************************************)
\* the trainer step whose loss is entry i of a history
StepOfEntry(i) == IF loop = "1D" THEN i ELSE i * batch_count(loop)

EntriesAreStepLosses ==
    /\ \A i \in 1..Len(d_losses) :
          IF StepOfEntry(i) <= steps
            THEN d_losses[i] = step_log[StepOfEntry(i)].d_loss
            ELSE i = Len(d_losses) /\ d_losses[i] = d_loss
    /\ \A i \in 1..Len(g_losses) :
          /\ StepOfEntry(i) <= steps
          /\ g_losses[i] = step_log[StepOfEntry(i)].g_loss

C12_HistoriesAppendOnly ==
    [][/\ d_losses' = d_losses \/ d_losses' = Append(d_losses, d_loss')
       /\ g_losses' = g_losses \/ g_losses' = Append(g_losses, g_loss')
       /\ EntriesAreStepLosses
       /\ EntriesAreStepLosses']_vars

C12_Witness ==
    /\ loop = "MLP"
    /\ pc = "done"
    /\ Len(d_losses) = EpochsMNIST
    /\ Len(g_losses) = EpochsMNIST
    /\ d_losses[1] # d_losses[EpochsMNIST]
    /\ g_losses[1] # g_losses[EpochsMNIST]

(***************************************************************************)
(* C13.  Divergence is not handled and stays observable.  When a loss of   *)
(* either network is not finite at some step, the loop does not stop: it   *)
(* makes every remaining step, one discriminator update and one generator  *)
(* update each, up to its fixed step count; it does not retry a step; it   *)
(* resets no weight, so weights that are not finite stay so; and each      *)
(* history of a network whose loss was not finite holds a value that is    *)
(* not finite when the run ends.                                           *)
(***************************************************************************)
C13_DivergenceUnhandled ==
    /\ (loop \in Loops /\ pc # "done") => ENABLED Next
    /\ steps <= ExpectedSteps
    /\ pc = "done" => steps = ExpectedSteps
    /\ Len(update_log) \in {2 * steps, 2 * steps + 1}
    /\ \A k \in 1..steps :
          /\ ~IsFinite(step_log[k].d) => ~IsFinite(d_params)
          /\ ~IsFinite(step_log[k].g) => ~IsFinite(g_params)
          /\ \A j \in k..steps :
                /\ ~IsFinite(step_log[k].d) => ~IsFinite(step_log[j].d)
                /\ ~IsFinite(step_log[k].g) => ~IsFinite(step_log[j].g)
    /\ pc = "done" =>
          /\ (\E k \in 1..steps : ~IsFinite(step_log[k].d_loss)) =>
                (\E i \in 1..Len(d_losses) : ~IsFinite(d_losses[i]))
          /\ (\E k \in 1..steps : ~IsFinite(step_log[k].g_loss)) =>
                (\E i \in 1..Len(g_losses) : ~IsFinite(g_losses[i]))

C13_Witness ==
    /\ pc = "done"
    /\ loop = "MLP"
    /\ steps = ExpectedSteps
    /\ IsFinite(step_log[2].d_loss) /\ IsFinite(step_log[2].g_loss)
    /\ ~IsFinite(step_log[3].d_loss)
    /\ IsFinite(d_losses[1])
    /\ ~IsFinite(d_losses[EpochsMNIST])
    /\ ~IsFinite(g_losses[EpochsMNIST])

(***************************************************************************)
(* C14.  When latent_dim, with which the noise is drawn and the composed   *)
(* model's input is declared, differs from the input dimension the         *)
(* generator was built with, the run fails fast with a dimension-mismatch  *)
(* error: the error is raised before any weight update and before any loss *)
(* is recorded, and the run does not continue.                             *)
(***************************************************************************)
C14_MismatchFailsFast ==
    /\ error = "dimension_mismatch" =>
          /\ pc = "error"
          /\ update_log = <<>> /\ steps = 0
          /\ d_losses = <<>> /\ g_losses = <<>>
          /\ d_loss = -1 /\ g_loss = -1
          /\ d_params = InitWeight(start.tf)
          /\ g_params = InitWeight(start.tf + 1)
    /\ pc = "error" => ~ENABLED NextFaults
    /\ (pc = "setup" /\ <<latent>> # GeneratorInputShape(loop, latent)) =>
          ENABLED BuildModelsFails /\ ~ENABLED BuildModels
    /\ (pc = "draw" /\ <<latent>> # shapes.gen_in) =>
          ENABLED DrawBatchesFails /\ ~ENABLED DrawBatches
    /\ (steps >= 1 \/ pc \in {"d_enable", "d_train", "freeze", "g_draw",
                              "g_train"}) =>
          <<latent>> = shapes.gen_in

C14_Witness ==
    /\ pc = "error"
    /\ error = "dimension_mismatch"
    /\ loop = "MLP"
    /\ shapes.gen_in = <<latent_dim_MNIST>>
    /\ shapes.noise = <<latent_dim_1D>>
    /\ Len(noise) = BatchSize

(***************************************************************************)
(* C15.  When no file is at the dataset path, the loader fails at its      *)
(* first statement, the gzip.open call: the exception goes to the caller,  *)
(* the file is not opened a second time, no dataset is returned, and no    *)
(* trainer step is executed in that run.                                   *)
(***************************************************************************)
\* the run's cells call a loader: the MNIST loops call loadMNIST, the
\* PatchCamelyon cell calls loadPatchCamelyon when its argument is bound
LoaderCalled ==
    \/ loop \in {"MLP", "CNN"}
    \/ loop = "PatchCamelyon" /\ PATCHCAMELYONFILENAME = "bound"

C15_MissingFileFailsLoad ==
    /\ error = "file_not_found" =>
          /\ pc = "error"
          /\ open_calls = 1
          /\ train_set = <<>> /\ X_train = <<>>
          /\ plt_show = 0
          /\ steps = 0 /\ update_log = <<>> /\ step_log = <<>>
    /\ open_calls <= 1
    /\ (pc = "load" /\ ~path_exists /\ loop \in {"MLP", "CNN"}) =>
          ENABLED LoadMNISTFails /\ ~ENABLED LoadMNIST
    /\ (pc = "load" /\ ~path_exists /\ LoaderCalled
           /\ loop = "PatchCamelyon") =>
          ENABLED LoadPatchCamelyonFails /\ ~ENABLED LoadPatchCamelyon
    /\ (LoaderCalled /\ ~path_exists) =>
          /\ pc \in {"import", "load", "error"}
          /\ pc = "error" => error = "file_not_found" /\ ~ENABLED NextFaults
    /\ (loop \in {"MLP", "CNN"} /\ pc \notin {"import", "load", "error"}) =>
          train_set = train_set_images
    /\ (loop = "PatchCamelyon" /\ pc \notin {"import", "load", "error"}) =>
          /\ pc = "loaded" /\ LoaderCalled
          /\ train_set = PatchCamelyonPickle
          /\ open_calls = 1

C15_Witness ==
    /\ loop = "CNN"
    /\ ~path_exists
    /\ pc = "error"
    /\ error = "file_not_found"
    /\ open_calls = 1
    /\ py_seed = 0

(***************************************************************************)
(* C16.  In the MNIST loops every real batch is taken from the fixed       *)
(* training set by sampling with replacement: the batch_size indices come  *)
(* from np.random.randint(0, N), each in [0, N), so no index is out of     *)
(* bounds and the batch is the rows of X_train at those indices; one index *)
(* may occur twice in a batch; every index of [0, N) is a value of the     *)
(* draw, whatever the step; and no trainer step modifies X_train.          *)
(***************************************************************************)
\* the indices the real batch of the current trainer step was taken at
BatchIndices ==
    RandintBatch(fake_pos + LatentCount(loop, BatchSize), Len(X_train),
                 BatchSize)

C16_SamplingWithReplacement ==
    loop # "1D" =>
      /\ pc \in {"d_enable", "d_train", "g_draw", "freeze", "g_train"} =>
            /\ Len(real) = BatchSize
            /\ \A i \in 1..BatchSize :
                  /\ 0 <= BatchIndices[i]
                  /\ BatchIndices[i] < Len(X_train)
                  /\ real[i] = X_train[BatchIndices[i] + 1]
      /\ pc \in {"epoch", "batch", "draw", "d_enable", "d_train", "g_draw",
                 "freeze", "g_train", "record", "vis_check", "save", "done"} =>
            /\ Len(X_train) = NTrain
            /\ X_train = Normalize(train_set_images)
            /\ train_set = train_set_images
            /\ \A j \in 0..(Len(X_train) - 1) :
                  \E s \in 0..(7 * 11 - 1) :
                      RandintBatch(s, Len(X_train), 1)[1] = j

C16_Witness ==
    /\ loop = "MLP"
    /\ pc = "d_train"
    /\ steps >= 1
    /\ BatchIndices[1] = BatchIndices[2]
    /\ \E k \in 1..steps : step_log[k].real_b # real

(***************************************************************************)
(* C17.  In each of the three experiments the shape of a sample the        *)
(* generator outputs is the shape of a real sample and the input shape the *)
(* discriminator was built with: (1,) in the 1-D experiment, (784,) in the *)
(* MLP experiment, (1, 28, 28) in the CNN experiment, whose generator goes *)
(* 128x7x7, upsampled to 128x14x14, convolved to 64x14x14, upsampled to    *)
(* 64x28x28, convolved to 1x28x28.  Hence np.concatenate([real, fake]) and *)
(* the discriminator's train_on_batch on the result get the shapes they    *)
(* require.                                                                *)
(***************************************************************************)
ExpectedSampleShape(l) ==
    CASE l = "1D" -> <<1>> [] l = "MLP" -> <<784>> [] l = "CNN" -> <<1, 28, 28>>

\* the shape after the first k layers of the CNN generator
GeneratorCNNShapeAfter(k) ==
    OutputShape(SubSeq(GeneratorLayers("CNN"), 1, k), <<latent_dim_MNIST>>)

C17_ShapesAgree ==
    /\ shapes # NoShapes =>
          /\ shapes.gen_out = ExpectedSampleShape(loop)
          /\ shapes.dis_in = ExpectedSampleShape(loop)
          /\ shapes.dis_out = <<1>>
    /\ pc \in {"d_enable", "d_train"} =>
          /\ shapes.real = ExpectedSampleShape(loop)
          /\ shapes.fake = shapes.real
          /\ InputAccepted(shapes.fake, shapes.dis_in)
          /\ InputAccepted(shapes.real, shapes.dis_in)
          /\ Len(X) = Len(real) + Len(fake)
    /\ GeneratorCNNShapeAfter(3) = <<128, 7, 7>>
    /\ GeneratorCNNShapeAfter(4) = <<128, 14, 14>>
    /\ GeneratorCNNShapeAfter(5) = <<64, 14, 14>>
    /\ GeneratorCNNShapeAfter(7) = <<64, 28, 28>>
    /\ GeneratorCNNShapeAfter(8) = <<1, 28, 28>>

C17_Witness ==
    /\ loop = "CNN"
    /\ pc = "d_train"
    /\ steps >= 1
    /\ shapes.gen_in = <<latent_dim_MNIST>>
    /\ shapes.fake = <<1, 28, 28>>
    /\ shapes.real = <<1, 28, 28>>

(***************************************************************************)
(* C18.  As claimed: a trainer step depends on nothing carried over from   *)
(* the step before it other than the weights of the two networks and the   *)
(* loss histories.  Started again from the weights and histories it began  *)
(* with, with the same random draws, whatever else the earlier steps left  *)
(* behind (the optimizers' state among it), step k ends with the same      *)
(* weights and returns the same losses.                                    *)
(***************************************************************************)
\* the replayed step k has ended as its first execution did
SameOutcome(k) ==
    /\ step_log[k].latent_d = first_run.log[k].latent_d
    /\ step_log[k].real_b = first_run.log[k].real_b
    /\ step_log[k].latent_g = first_run.log[k].latent_g
    /\ step_log[k].d = first_run.log[k].d
    /\ step_log[k].g = first_run.log[k].g
    /\ step_log[k].d_loss = first_run.log[k].d_loss
    /\ step_log[k].g_loss = first_run.log[k].g_loss

C18_OnlyWeightsCarry ==
    (run_no = 2 /\ first_run.restored = "weights"
                /\ steps >= Len(first_run.log)) =>
        SameOutcome(Len(first_run.log))

(***************************************************************************)
(* C18, amended.  Besides the weights and the loss histories, the state of *)
(* the two Adam optimizers (of discriminator and of gan) outlives a step   *)
(* and influences the next one, and so do the positions of the random      *)
(* generators, from which the next draws follow.  Nothing else does:       *)
(* started again from the weights, histories, optimizer states and         *)
(* generator positions it began with, step k ends with the same weights,   *)
(* optimizer states and losses, whatever the flag discriminator.trainable  *)
(* and the batch variables held when it started.                           *)
(***************************************************************************)
C18_CarriedState ==
    (run_no = 2 /\ first_run.restored = "carried"
                /\ steps >= Len(first_run.log)) =>
        LET k == Len(first_run.log)
        IN  /\ SameOutcome(k)
            /\ step_log[k].dis_opt = first_run.log[k].dis_opt
            /\ step_log[k].gan_opt = first_run.log[k].gan_opt
            /\ (steps = k /\ Len(step_log) = k) =>
                  /\ dis_opt = first_run.dis_opt
                  /\ gan_opt = first_run.gan_opt

C18_Witness ==
    /\ run_no = 2
    /\ first_run.restored = "carried"
    /\ steps = Len(first_run.log)
    /\ steps >= 2
    /\ SameOutcome(steps)
    /\ step_log[steps].dis_opt # FreshAdam
    /\ step_log[steps].d # step_log[steps - 1].d

(***************************************************************************)
(* C19.  Every value a discriminator outputs lies in [0, 1] (0..10 in      *)
(* tenths): for the batch X of the discriminator update, with or without a *)
(* Dropout mask, for the generated batch of the generator update, and for  *)
(* the grid np.arange(-20, 20, 0.5) of the 1-D figure; in all three loops  *)
(* and for all weights a run reaches.  Each discriminator ends in a        *)
(* Dense(1) layer, so it outputs one such value per sample.                *)
(***************************************************************************)
InUnitInterval(P) == \A i \in 1..Len(P) : 0 <= P[i] /\ P[i] <= 10

\* the points of np.arange(-20, 20, 0.5) the model can tell apart
PredictionGrid == [i \in 1..40 |-> i - 21]

C19_DiscriminatorOutputRange ==
    /\ shapes # NoShapes =>
          /\ shapes.dis_out = <<1>>
          /\ InUnitInterval(DiscriminatorForward(d_params, PredictionGrid,
                                                 FALSE))
    /\ pc = "d_train" =>
          \A drop \in {FALSE, HasDropout(loop)} :
              InUnitInterval(DiscriminatorForward(d_params, X, drop))
    /\ pc = "g_train" =>
          \A drop \in {FALSE, HasDropout(loop)} :
              InUnitInterval(DiscriminatorForward(d_params,
                  GeneratorPredict(loop, g_params, noise), drop))

C19_Witness ==
    /\ pc = "d_train"
    /\ steps >= 1
    /\ d_params # InitWeight(start.tf)
    /\ \E i, j \in 1..Len(X) :
          /\ DiscriminatorForward(d_params, X, FALSE)[i] = 9
          /\ DiscriminatorForward(d_params, X, FALSE)[j] = 1

(***************************************************************************)
(* C20.  One-hot encoding of the labels: once the loop over the ten        *)
(* columns has ended, for every sample i with label L in 0..9, row i of    *)
(* train_set_labels_output has 1 at column L and 0 at the nine other       *)
(* columns; so every row holds exactly one 1, and the column of that 1 is  *)
(* the label.  (Columns are counted from 0, as in the notebook.)           *)
(***************************************************************************)
C20_OneHotEncoding ==
    pc = "onehot_done" =>
      /\ Len(train_set_labels_output) = Len(labels)
      /\ \A i \in 1..Len(labels) :
            /\ Len(train_set_labels_output[i]) = 10
            /\ labels[i] \in 0..9 =>
                  /\ train_set_labels_output[i][labels[i] + 1] = 1
                  /\ \A c \in 0..9 :
                        c # labels[i] => train_set_labels_output[i][c + 1] = 0
                  /\ Cardinality({c \in 0..9 :
                        train_set_labels_output[i][c + 1] = 1}) = 1
                  /\ (CHOOSE c \in 0..9 :
                        train_set_labels_output[i][c + 1] = 1) = labels[i]

C20_Witness ==
    /\ pc = "onehot_done"
    /\ Len(labels) >= 2
    /\ labels[1] = 9
    /\ labels[2] = 0
    /\ train_set_labels_output[1][10] = 1
    /\ train_set_labels_output[2][1] = 1

\* the three (labels, images) pairs loadMNIST returned, each with the pixel
\* data of its split in the file
LoadedSplits ==
    {[lbl |-> labels, img |-> mnist.train_set_images, split |-> 0],
     [lbl |-> mnist.valid_set_labels, img |-> mnist.valid_set_images,
      split |-> 1],
     [lbl |-> mnist.test_set_labels, img |-> mnist.test_set_images,
      split |-> 2]}

\* a.shape of a four-dimensional array with at least one element
ShapeOf(a) == <<Len(a), Len(a[1]), Len(a[1][1]), Len(a[1][1][1])>>

\* image i of img is the 28x28 image i of the file inside a zero border of
\* width 2
IsPaddedInput(img, split, count, i) ==
    LET raw == PickledImages(split, count)
    IN  \A r \in 1..32 : \A c \in 1..32 :
          img[i][r][c] =
             IF r \in 3..30 /\ c \in 3..30
               THEN <<raw[(i - 1) * 784 + (r - 3) * 28 + (c - 3) + 1]>>
               ELSE <<0>>

(***************************************************************************)
(* C21.  For each of the three splits loadMNIST returns as many images as  *)
(* the split has labels; each image is the 28x28 image of the file inside  *)
(* a zero border of width 2 on all four sides, so the array has shape      *)
(* (len(labels), 32, 32, 1), and (32, 32, 1) is the input shape declared   *)
(* by the first layer of the network.                                      *)
(***************************************************************************)
C21_LoaderContract ==
    (loop = "LeNet" /\ pc \notin {"import", "load", "error"}) =>
      \A s \in LoadedSplits :
         /\ Len(s.img) = Len(s.lbl)
         /\ ShapeOf(s.img) = <<Len(s.lbl), 32, 32, 1>>
         /\ \A i \in 1..Len(s.lbl) :
               IsPaddedInput(s.img, s.split, Len(s.lbl), i)
         /\ Tail(ShapeOf(s.img)) = LeNetInputShape

C21_Witness ==
    /\ pc = "onehot_zeros"
    /\ Len(labels) = NLabels
    /\ Len(mnist.train_set_images) = NLabels
    /\ Len(mnist.valid_set_images) = NValid
    /\ mnist.train_set_images[NLabels][3][3] # <<0>>
    /\ mnist.train_set_images[NLabels][2][3] = <<0>>
    /\ mnist.test_set_images[1][30][30] # mnist.valid_set_images[1][30][30]

(***************************************************************************)
(* C22.  The layers of cnn map per-sample shapes as the recorded output    *)
(* shows: (32,32,1), (28,28,6), (14,14,6), (10,10,16), (5,5,16), 400, 120, *)
(* 84, 10; each layer's input shape is the output shape of the layer       *)
(* before it, and the final width 10 is the width of the one-hot label     *)
(* rows.                                                                   *)
(***************************************************************************)
C22_LeNetShapes ==
    pc \in {"cnn_built", "compiled"} =>
      /\ Printed(cnn) = << <<32, 32, 1>>, <<28, 28, 6>>, <<14, 14, 6>>,
                           <<10, 10, 16>>, <<5, 5, 16>>, <<400>>, <<120>>,
                           <<84>>, <<10>> >>
      /\ \A k \in 2..Len(cnn) : cnn[k].input_shape = cnn[k - 1].output_shape
      /\ \A i \in 1..Len(train_set_labels_output) :
            cnn[Len(cnn)].output_shape = <<Len(train_set_labels_output[i])>>

C22_Witness ==
    /\ pc = "cnn_built"
    /\ Len(cnn) = 8
    /\ Len(train_set_labels_output) = NLabels
    /\ cnn[5].output_shape = <<400>>

(***************************************************************************)
(* C24.  In the MLP and CNN loops the histories hold the loss of the most  *)
(* recent batch of each epoch: every completed epoch has appended exactly  *)
(* one value to d_losses and one to g_losses, the value of epoch i is the  *)
(* loss returned by the last of that epoch's batch_count trainer steps,    *)
(* and after E epochs each history has length E.                           *)
(***************************************************************************)
C24_LastBatchLossPerEpoch ==
    (loop \in {"MLP", "CNN"}
       /\ pc \notin {"import", "load", "setup", "loop_init", "error"}) =>
      /\ Len(d_losses) = EpochsRecorded
      /\ Len(g_losses) = EpochsRecorded
      /\ \A i \in 1..EpochsRecorded :
            /\ i * batch_count(loop) <= steps
            /\ d_losses[i] = step_log[i * batch_count(loop)].d_loss
            /\ g_losses[i] = step_log[i * batch_count(loop)].g_loss
      /\ pc = "done" =>
            /\ Len(d_losses) = epochs(loop)
            /\ Len(g_losses) = epochs(loop)

C24_Witness ==
    /\ loop = "CNN"
    /\ pc = "done"
    /\ batch_count(loop) >= 2
    /\ Len(d_losses) = EpochsMNIST
    /\ step_log[1].d_loss # step_log[batch_count(loop)].d_loss
    /\ step_log[1].g_loss # step_log[batch_count(loop)].g_loss
    /\ d_losses[1] = step_log[batch_count(loop)].d_loss

\* the discriminator's weights produced by the discriminator update of step
\* k: one optimizer step from the weights the step began with, on the step's
\* real batch and the synthetic batch made from its first latent batch
DiscriminatorAfterUpdate(k) ==
    LET d0 == ParamsBefore(k).d
        P  == DiscriminatorForward(d0,
                 Concatenate(step_log[k].real_b, FakeOfStep(k)),
                 HasDropout(loop) /\ DropoutMask(step_log[k].tf))
    IN  DiscriminatorStep(d0, step_log[k].dis_opt,
                          DiscriminatorLabels(loop, n_batch(loop)), P)

\* the composed model's predictions in the generator update of step k, made
\* through discriminator weights d
GanPredictions(k, d) ==
    DiscriminatorForward(d,
        GeneratorPredict(loop, ParamsBefore(k).g, step_log[k].latent_g),
        HasDropout(loop) /\ DropoutMask(step_log[k].tf + 1))

\* the generator's weights produced by the generator update of step k
GeneratorAfterUpdate(k) ==
    GeneratorStep(ParamsBefore(k).g, step_log[k].gan_opt,
                  GeneratorTargets(n_batch(loop)),
                  GanPredictions(k, DiscriminatorAfterUpdate(k)))

(***************************************************************************)
(* C25.  Each sub-step uses the other network's current weights.  The      *)
(* generator update of step k computes its loss through the discriminator  *)
(* weights the discriminator update of the same step produced; and the     *)
(* synthetic batch of step k+1's discriminator update is generated with    *)
(* the generator weights the generator update of step k produced, not with *)
(* weights of an earlier step.                                             *)
(***************************************************************************)
C25_CurrentParametersUsed ==
    /\ \A k \in 1..steps :
          /\ step_log[k].g_loss =
                BinaryCrossentropy(GeneratorTargets(n_batch(loop)),
                    GanPredictions(k, DiscriminatorAfterUpdate(k)))
          /\ step_log[k].g = GeneratorAfterUpdate(k)
    /\ (pc \in {"d_enable", "d_train"} /\ Len(step_log) >= 2) =>
          LET k == Len(step_log) - 1
          IN  /\ fake = GeneratorPredict(loop, GeneratorAfterUpdate(k),
                                         step_log[k + 1].latent_d)
              /\ X = Concatenate(real, fake)

C25_Witness ==
    /\ pc = "d_train"
    /\ Len(step_log) >= 2
    /\ DiscriminatorAfterUpdate(1) # ParamsBefore(1).d
    /\ GeneratorAfterUpdate(1) # ParamsBefore(1).g
    /\ fake # GeneratorPredict(loop, ParamsBefore(1).g, step_log[2].latent_d)
    /\ step_log[1].g_loss #
          BinaryCrossentropy(GeneratorTargets(n_batch(loop)),
                             GanPredictions(1, ParamsBefore(1).d))

(***************************************************************************)
(* C26.  Label smoothing is one-sided and differs between the loops.  At   *)
(* the discriminator update the label of the real samples is 0.9 in the    *)
(* MLP loop and 1 in the 1-D and CNN loops; in all three loops the label   *)
(* of the synthetic samples is exactly 0, and at the generator update the  *)
(* target of every sample is exactly 1.  (Labels are in tenths.)           *)
(***************************************************************************)
C26_OneSidedSmoothing ==
    LET n == n_batch(loop)
    IN  /\ pc = "d_train" =>
              /\ loop = "MLP" => \A i \in 1..n : Y_dis[i] = 9
              /\ loop \in {"1D", "CNN"} => \A i \in 1..n : Y_dis[i] = 10
              /\ \A i \in (n + 1)..Len(Y_dis) : Y_dis[i] = 0
              /\ Len(Y_dis) = 2 * n
        /\ pc = "g_train" =>
              /\ Len(Y_gen) = n
              /\ \A i \in 1..n : Y_gen[i] = 10

C26_Witness ==
    /\ loop = "MLP"
    /\ pc = "g_train"
    /\ steps >= 1
    /\ Y_dis[1] = 9
    /\ Y_dis[Len(Y_dis)] = 0
    /\ Y_gen[1] = 10

(***************************************************************************)
(* C27.  The discriminator update of a trainer step,                       *)
(* discriminator.train_on_batch, changes only the discriminator's weights: *)
(* in every step of every loop the generator's weights after the call are  *)
(* the generator's weights immediately before it.                          *)
(***************************************************************************)
C27_DiscriminatorUpdateKeepsGenerator ==
    [][update_log' = Append(update_log, "discriminator_update") =>
          g_params' = g_params]_vars

C27_Witness ==
    /\ pc = AfterDiscriminatorUpdate(loop)
    /\ Len(step_log) >= 2
    /\ update_log[Len(update_log)] = "discriminator_update"
    /\ d_params # ParamsBefore(Len(step_log)).d
    /\ g_params = ParamsBefore(Len(step_log)).g
    /\ g_params # ParamsBefore(1).g

\* the period the branch at the end of an iteration is claimed to have
ClaimedPeriod(l) == IF l = "1D" THEN 100 ELSE 5

\* the file pair saveModels(epoch) writes from the current weights
SavedNow == [epoch |-> e, generator |-> g_params, discriminator |-> d_params]

\* at the end of a MNIST loop the saved epochs are the multiples of 5 below
\* the epoch count, and the last epoch is among them only if it is one
SavedEpochsAtEnd ==
    (loop # "1D" /\ pc = "done") =>
      /\ {s.epoch : s \in saved} = {x \in 0..(n_epochs - 1) : x % 5 = 0}
      /\ (n_epochs - 1) % 5 # 0 =>
            \A s \in saved : s.epoch # n_epochs - 1

\* at the end of a loop the branch has been taken once for every multiple
\* of the period below the epoch count, and only the MNIST loops have saved
ShownAtEnd ==
    (loop \in Loops /\ pc = "done") =>
      /\ shown = Cardinality({x \in 0..(n_epochs - 1) :
                                 x % ClaimedPeriod(loop) = 0})
      /\ loop = "1D" => saved = {}

(***************************************************************************)
(* C28.  Visualization and checkpointing happen exactly at the iterations  *)
(* whose index is a multiple of the period, 100 in the 1-D loop and 5 in   *)
(* the MNIST loops, iteration 0 included, and always after both updates of *)
(* that iteration; the MNIST loops save, after the figure and in the same  *)
(* iteration, the weights those updates left.  So with 200 epochs the      *)
(* MNIST loops save at epochs 0, 5, ..., 195 only, and the weights reached *)
(* after the last epoch, 199, are never saved.                             *)
(***************************************************************************)
C28_PeriodicVisualization ==
    [][/\ pc = "vis_check" =>
            LET due == e % ClaimedPeriod(loop) = 0
            IN  /\ shown' = (IF due THEN shown + 1 ELSE shown)
                /\ plt_show' = (IF due /\ loop # "1D" THEN plt_show + 1
                                                        ELSE plt_show)
                /\ saved' = saved
                /\ (due /\ loop # "1D") <=> (pc' = "save" /\ e' = e)
                /\ steps = (e + 1) * batch_count(loop)
                /\ Len(update_log) = 2 * steps
                /\ update_log[Len(update_log)] = "generator_update"
                /\ e = 0 => due
       /\ pc = "save" =>
            /\ e % ClaimedPeriod(loop) = 0
            /\ shown' = shown
            /\ saved' = saved \cup {SavedNow}
            /\ steps = (e + 1) * batch_count(loop)
            /\ Len(update_log) = 2 * steps
            /\ g_params = step_log[steps].g
            /\ d_params = step_log[steps].d
       /\ pc \notin {"vis_check", "save"} => (shown' = shown /\ saved' = saved)
       /\ pc \notin {"vis_check", "load"} => plt_show' = plt_show
       /\ SavedEpochsAtEnd'
       /\ ShownAtEnd'
       /\ {x \in 0..(Src_epochs_MNIST - 1) : x % 5 = 0} = {5 * j : j \in 0..39}
       /\ (Src_epochs_MNIST - 1) % 5 # 0]_vars

C28_Witness ==
    /\ loop = "1D"
    /\ pc = "done"
    /\ e = Epochs1DLong
    /\ e > 2 * ClaimedPeriod(loop)
    /\ shown = 3
    /\ steps = e
    /\ saved = {}

\* the MNIST case: two saves, the second at epoch 5 with the weights the
\* sixth epoch left, and the final weights in no file
C28_WitnessMNIST ==
    /\ loop = "MLP"
    /\ pc = "done"
    /\ shown = 2
    /\ {s.epoch : s \in saved} = {0, 5}
    /\ \E s \in saved : s.epoch = 5 /\ s.generator = step_log[6 * batch_count(loop)].g
    /\ \A s \in saved : s.generator # g_params \/ s.discriminator # d_params

====
